---- MODULE Spec2Model ----
(***************************************************************************)
(* A model of MyWebServer: the reactor (WebServer), its connections        *)
(* (HttpConn), the worker pool, the idle timer and the epoll set, and the  *)
(* assembly of one HTTP response (HttpConn::process, HttpResponse).        *)
(*                                                                         *)
(* Spec      the reactor thread and the worker threads interleaved over a  *)
(*           small set of descriptor numbers.  Request data is the peer's  *)
(*           choice, so the outcome of a read, a parse and a write is      *)
(*           drawn from the outcomes the code distinguishes.               *)
(* LiveSpec  Spec with the fairness the reactor loop and the clock have.   *)
(* SpecHttp  one connection, sequentially: the bytes in its read buffer,   *)
(*           HttpConn::process and HttpResponse::MakeResponse.             *)
(* SpecResp  HttpResponse::Init and MakeResponse by themselves, over every *)
(*           code, kind of file and state of the error pages.              *)
(* SpecFull  Spec started with MAX_FD - 1 or MAX_FD connections open.      *)
(* SpecTimer HeapTimer by itself: add, adjust, doWork, tick, pop and       *)
(*           GetNextTick on a clock finer than a millisecond.              *)
(* SpecPool  ThreadPool by itself: AddTask and the worker threads' loop.   *)
(* LivePool  SpecPool with the worker threads scheduled fairly.            *)
(* SpecPoolDown, LivePoolDown  the pool with ~ThreadPool, unfair and fair. *)
(* SpecQueue BlockQueue by itself: producers in push_back, consumers in pop.*)
(* SpecQueueClose, LiveQueueClose  the queue with Close, unfair and fair.  *)
(* SpecLog, LiveLog  Log: init, write, the writer thread and ~Log, started *)
(*           near a full file; unfair and fair.                            *)
(* SpecBoot  the constructor (InitEventMode_, InitSocket_) and Start, then *)
(*           Spec's steps.                                                 *)
(* SpecMode  the event masks: InitEventMode_ and every AddFd / ModFd call. *)
(* SpecExtent  the timer as the server uses it: add and adjust with the    *)
(*           one timeout, tick and the clock.                              *)
(* SpecIov   one HttpConn object: process, the iovec, the mapping, the loop*)
(*           of HttpConn::write and what OnWrite_ does next.               *)
(* SpecListen  DealListen_ and the listener's accept queue, near MAX_FD.   *)
(* SpecLogBuff  the locked block of Log::write as it moves buff_'s cursors.*)
(***************************************************************************)
EXTENDS Integers, Sequences, FiniteSets, TLC

(* ------------------------------ bounds --------------------------------- *)
\* descriptor numbers accept() can return: 1..NumFds
NumFds == 1
\* worker threads of the pool
NumWorkers == 1
\* connections the peers open during one run: every descriptor number can be
\* used, and one of them a second time
MaxAccepts == IF NumFds = 1 THEN 2 ELSE NumFds
\* SpecHttp: requests the peer sends on one connection
MaxRequests == 2
\* the configured idle timeout (timeoutMS_ > 0), in clock steps
timeoutMS == 1

\* SpecPool: the worker threads of the pool
NumThreads == 2
\* SpecPool: the tasks passed to AddTask
MaxTasks == 3
\* SpecQueue: the capacity the BlockQueue is constructed with (maxsize > 0)
capacity_ == 2
\* SpecQueue: the threads that call push_back, and the items they push in all
NumProducers == 2
MaxPushes == 4
\* SpecQueue: the threads that call pop
NumConsumers == 2
\* SpecMode: the client descriptors, and the trigMode arguments 0..MaxTrigMode
NumRegFds == 3
MaxTrigMode == 4
\* SpecIov: a response has 1..MaxHdr bytes in writeBuff_ and a file of
\* 1..MaxFile bytes; at most MaxMaps files are mapped in one run
MaxHdr == 2
MaxFile == 2
MaxMaps == 2
\* SpecListen: the connections that can wait in the listener's accept queue
MaxBacklog == 3
\* SpecLogBuff: the longest formatted message, and the room Log::buff_ has at
\* first beyond the time stamp and the level title
MaxMsg == 4
BuffSpare == 2
\* SpecLog: the threads that call Log::write, and the lines they write in all
NumLoggers == 2
MaxLines == 3
\* SpecTimer: the ids given to the timer are 1..MaxIds
MaxIds == 3
\* SpecTimer: the timeouts passed to add and adjust are 1..MaxTimeoutMs milliseconds
MaxTimeoutMs == 2

(* ------------------------- program constants --------------------------- *)
MAX_FD == 65536
\* HttpConn::write goes round again level-triggered while more than this is left
WriteLoopBytes == 10240
\* Log::write: the length of the time stamp "%d-%02d-%02d %02d:%02d:%02d.%06ld ",
\* of the level title, and of the "\n\0" appended at the end
StampLen == 27
TitleLen == 9
EndLen == 2
\* Clock is std::chrono::high_resolution_clock and MS is std::chrono::milliseconds:
\* a time point is finer than a millisecond; one millisecond is TicksPerMs ticks
TicksPerMs == 2
\* log.h (not among the sources): the lines per log file, 50000 by default
MAX_LINES == 50000
\* SpecTimer: the run is followed until the clock reads MaxNow ticks
MaxNow == TicksPerMs * MaxTimeoutMs

FDs == 1..NumFds
Workers == 1..NumWorkers
\* HeapTimer::ref_ has no entry for the id
NoTimer == -1

VARIABLES
    trigMode,   \* WebServer's trigMode argument, 0..3
    users,      \* the keys of WebServer::users_
    isClose,    \* HttpConn::isClose_ of users_[fd] (TRUE while there is no entry)
    mmFile,     \* HttpResponse::mmFile_ != nullptr
    toWrite,    \* HttpConn::ToWriteBytes(): 0, or 1 for any positive count
    keepAlive,  \* HttpRequest::IsKeepAlive() of the connection's request_
    rdable,     \* readBuff_.ReadableBytes() > 0
    userCount,  \* HttpConn::userCount
    sock,       \* the kernel: descriptor fd is an open socket
    ep,         \* the epoll set: "none", "off" (one-shot disarmed), "IN", "OUT"
    timer,      \* HeapTimer: clock steps left to the node's deadline, or NoTimer
    rpc,        \* the reactor: "loop" (WebServer::Start), or inside Close
    rfd,        \* the connection the reactor is closing
    tasks,      \* ThreadPool::Pool::tasks
    wpc,        \* each worker's position
    wfd,        \* the connection of the task a worker runs
    accepts,    \* connections accepted so far
    busy,       \* connections sent "Server busy!" by SendError_ and closed
    hwire,      \* SpecHttp: the lines the peer has still to send
    hbuf,       \* SpecHttp: readBuff_, the lines read and not yet consumed
    hstate,     \* SpecHttp: HttpRequest::state_
    hpath,      \* SpecHttp: HttpRequest::path_
    hka,        \* SpecHttp: HttpRequest::IsKeepAlive()
    hres,       \* SpecHttp: how the last HttpRequest::parse ended
    hfs,        \* SpecHttp, SpecResp: the error pages exist under srcDir
    hpc,        \* SpecHttp, SpecResp: the connection's position
    resp,       \* SpecHttp, SpecResp: HttpResponse's fields
    heap_,      \* SpecTimer: HeapTimer::heap_, the nodes <<id, expires>>
    ref_,       \* SpecTimer: HeapTimer::ref_, id -> index in heap_ (NoIdx: no entry)
    now,        \* SpecTimer: Clock::now(), in clock ticks
    fault,      \* SpecTimer: "ok", or how a read outside heap_ ended the run
    fired,      \* SpecTimer: the nodes whose callback the last operation invoked
    ret,        \* SpecTimer: what the last GetNextTick returned
    top,        \* SpecTimer: the last operation
    poolTasks,  \* SpecPool: Pool::tasks
    isClosed,   \* SpecPool: Pool::isClosed
    added,      \* SpecPool: the number of tasks passed to AddTask
    thr,        \* SpecPool: each worker thread's position
    thrTask,    \* SpecPool: the task a worker thread has taken
    took,       \* SpecPool: the tasks in the order they left the queue
    ran,        \* SpecPool: how many times each task was executed
    dtor,       \* SpecPool: how far ThreadPool::~ThreadPool has come
    deq_,       \* SpecQueue: BlockQueue::deq_
    bqClose,    \* SpecQueue: BlockQueue::isClose_
    prod,       \* SpecQueue: each producer's position in push_back
    cons,       \* SpecQueue: each consumer's position in pop
    stored,     \* SpecQueue: the number of items push_back has stored
    popped,     \* SpecQueue: the items pop has returned, in order
    closer,     \* SpecQueue: how far BlockQueue::Close has come
    isAsync_,   \* SpecLog: Log::isAsync_
    made,       \* SpecLog: the queues (and writer threads) Log::init has created
    lineCount_, \* SpecLog: Log::lineCount_
    fp_,        \* SpecLog: the file Log::fp_ is open on (NoFile: none)
    files,      \* SpecLog: the lines each log file has received, in order
    accepted,   \* SpecLog: the lines Log::write has numbered so far
    lw,         \* SpecLog: the position of each thread that calls Log::write
    lwFile,     \* SpecLog: the file name such a thread has computed
    wr,         \* SpecLog: the writer thread's position in AsyncWrite_
    wrLine,     \* SpecLog: the line the writer thread has popped
    ldtor,      \* SpecLog: how far Log::~Log has come
    listenEvent_, \* SpecBoot, SpecMode: WebServer::listenEvent_, a set of flags
    connEvent_, \* SpecBoot, SpecMode: WebServer::connEvent_, a set of flags
    srvClose,   \* SpecBoot, SpecMode: WebServer::isClose_
    boot,       \* SpecBoot, SpecMode: how far the constructor and Start have come
    regs,       \* SpecBoot, SpecMode: the event mask each descriptor is registered with
    cst,        \* SpecIov: HttpConn::isClose_ of the one HttpConn object, as "open" / "closed"
    wbuf,       \* SpecIov: writeBuff_.ReadableBytes()
    iov0,       \* SpecIov: iov_[0]: offset of iov_base in the response's header, iov_len
    iov1,       \* SpecIov: iov_[1]: the mapping iov_base points into, offset, iov_len
    iovCnt_,    \* SpecIov: HttpConn::iovCnt_
    mmFile_,    \* SpecIov: HttpResponse::mmFile_, a mapping or NoMap
    maps,       \* SpecIov: every mapping mmap has made: its length and the munmap calls on it
    resp_,      \* SpecIov: the response under way: header bytes H, file bytes F, keep-alive
    sent,       \* SpecIov: the bytes of the response writev has taken, in order
    wret,       \* SpecIov: how the last writev of the HttpConn::write under way returned
    lTrig,      \* SpecListen: WebServer's trigMode argument
    backlog,    \* SpecListen: the connections waiting in the listener's accept queue
    lUsers,     \* SpecListen: HttpConn::userCount
    lAdded,     \* SpecListen: the AddClient_ calls of the last DealListen_
    lBusy,      \* SpecListen: the last DealListen_ answered "Server busy!"
    bpc,        \* SpecLogBuff: the statement of Log::write's locked block that is next
    readPos_,   \* SpecLogBuff: the read cursor of Log::buff_
    writePos_,  \* SpecLogBuff: the write cursor of Log::buff_
    bufSize,    \* SpecLogBuff: the capacity of Log::buff_
    overrun     \* SpecLogBuff: a HasWritten count was larger than WritableBytes()

srvVars == <<trigMode, users, isClose, mmFile, toWrite, keepAlive, rdable, userCount,
             sock, ep, timer, rpc, rfd, tasks, wpc, wfd, accepts, busy>>
httpVars == <<hwire, hbuf, hstate, hpath, hka, hres, hfs, hpc, resp>>
timerVars == <<heap_, ref_, now, fault, fired, ret, top>>
poolVars == <<poolTasks, isClosed, added, thr, thrTask, took, ran, dtor>>
queueVars == <<deq_, bqClose, prod, cons, stored, popped, closer>>
logVars == <<isAsync_, made, lineCount_, fp_, files, accepted, lw, lwFile, wr, wrLine,
            ldtor>>
bootVars == <<listenEvent_, connEvent_, srvClose, boot, regs>>
iovVars == <<cst, wbuf, iov0, iov1, iovCnt_, mmFile_, maps, resp_, sent, wret>>
listenVars == <<lTrig, backlog, lUsers, lAdded, lBusy>>
buffVars == <<bpc, readPos_, writePos_, bufSize, overrun>>
libVars == <<timerVars, poolVars, queueVars, logVars, bootVars, iovVars, listenVars,
    buffVars>>
notTimerVars == <<srvVars, httpVars, poolVars, queueVars, logVars, bootVars, iovVars,
    listenVars, buffVars>>
notPoolVars == <<srvVars, httpVars, timerVars, queueVars, logVars, bootVars, iovVars,
    listenVars, buffVars>>
notQueueVars == <<srvVars, httpVars, timerVars, poolVars, logVars, bootVars, iovVars,
    listenVars, buffVars>>
notBootVars == <<httpVars, timerVars, poolVars, queueVars, logVars, iovVars,
    listenVars, buffVars>>
notIovVars == <<srvVars, httpVars, timerVars, poolVars, queueVars, logVars, bootVars,
    listenVars, buffVars>>
notListenVars == <<srvVars, httpVars, timerVars, poolVars, queueVars, logVars, bootVars,
    iovVars, buffVars>>
notBuffVars == <<srvVars, httpVars, timerVars, poolVars, queueVars, logVars, bootVars,
    iovVars, listenVars>>
\* Log owns a BlockQueue: deq_ and bqClose are its deque and its closed flag
notLogVars == <<srvVars, httpVars, timerVars, poolVars, prod, cons, stored, popped,
               closer, bootVars, iovVars, listenVars, buffVars>>
vars == <<srvVars, httpVars, libVars>>

(* --------------------------- InitEventMode_ ---------------------------- *)
\* connEvent_ & EPOLLET, which is also HttpConn::isET
ConnET(mode) == mode \in {1, 3} \/ mode \notin 0..3
\* listenEvent_ & EPOLLET
ListenET(mode) == mode \in {2, 3} \/ mode \notin 0..3
isET == ConnET(trigMode)

(* ------------------------------ Epoller --------------------------------- *)
\* epoll_ctl(ADD) of a descriptor that is not in the set
AddFd(e, fd, ev) == IF e[fd] = "none" THEN [e EXCEPT ![fd] = ev] ELSE e
\* epoll_ctl(MOD): fails (EBADF, ENOENT) unless the descriptor is open and in the set
ModFd(e, s, fd, ev) == IF s[fd] /\ e[fd] # "none" THEN [e EXCEPT ![fd] = ev] ELSE e
\* epoll_ctl(DEL)
DelFd(e, fd) == [e EXCEPT ![fd] = "none"]

(* ------------------------------ HeapTimer ------------------------------- *)
\* add(id, timeout, cb): a new node, or the deadline of the node id already has
TimerAdd_Skipped(t, id) == t
TimerAdd(t, id) == [t EXCEPT ![id] = timeoutMS]
\* adjust(id, timeout): the node's deadline becomes now + timeout
TimerAdjust(t, id) == IF t[id] # NoTimer THEN [t EXCEPT ![id] = timeoutMS] ELSE t
\* pop() of the node tick() has just run
TimerPop(t, id) == [t EXCEPT ![id] = NoTimer]
\* the nodes tick() finds due
Expired == {fd \in FDs : timer[fd] = 0}

(* ------------------------------ HttpConn -------------------------------- *)
\* HttpConn::Close reads isClose_ and, finding the connection open, goes on to
\* set the flag, count the user down and close the socket
CloseGuard_NoTest(fd) == TRUE
CloseGuard(fd) == isClose[fd] = FALSE

\* WebServer::CloseConn_ up to the test in HttpConn::Close: DelFd, UnmapFile
CloseBegin(fd) ==
    /\ ep' = DelFd(ep, fd)
    /\ mmFile' = [mmFile EXCEPT ![fd] = FALSE]

\* HttpConn::Close past the test: isClose_ = true, userCount--, close(fd_)
\* (closing a descriptor takes it out of the epoll set)
CloseAct(fd) ==
    /\ isClose' = [isClose EXCEPT ![fd] = TRUE]
    /\ userCount' = userCount - 1
    /\ sock' = [sock EXCEPT ![fd] = FALSE]
    /\ ep' = [ep EXCEPT ![fd] = "none"]

(* ------------------------------ the reactor ----------------------------- *)
\* the n lowest descriptor numbers that are free: what n accept() calls return
LowestFree(n) ==
    {fd \in FDs : ~sock[fd] /\ Cardinality({g \in FDs : ~sock[g] /\ g < fd}) < n}

\* WebServer::AddClient_ for every descriptor in S: users_[fd].init(fd, addr),
\* timer_->add, epoller_->AddFd(fd, EPOLLIN | connEvent_)
AddClients_NoEntry(S) ==
    /\ users' = users
    /\ userCount' = userCount + Cardinality(S)
    /\ rdable' = [fd \in FDs |-> IF fd \in S THEN FALSE ELSE rdable[fd]]
    /\ isClose' = [fd \in FDs |-> IF fd \in S THEN FALSE ELSE isClose[fd]]
    /\ timer' = [fd \in FDs |-> IF fd \in S THEN TimerAdd(timer, fd)[fd] ELSE timer[fd]]
    /\ sock' = [fd \in FDs |-> IF fd \in S THEN TRUE ELSE sock[fd]]
    /\ ep' = [fd \in FDs |-> IF fd \in S THEN AddFd(ep, fd, "IN")[fd] ELSE ep[fd]]
AddClients(S) ==
    /\ users' = users \cup S
    /\ userCount' = userCount + Cardinality(S)
    /\ rdable' = [fd \in FDs |-> IF fd \in S THEN FALSE ELSE rdable[fd]]
    /\ isClose' = [fd \in FDs |-> IF fd \in S THEN FALSE ELSE isClose[fd]]
    /\ timer' = [fd \in FDs |-> IF fd \in S THEN TimerAdd(timer, fd)[fd] ELSE timer[fd]]
    /\ sock' = [fd \in FDs |-> IF fd \in S THEN TRUE ELSE sock[fd]]
    /\ ep' = [fd \in FDs |-> IF fd \in S THEN AddFd(ep, fd, "IN")[fd] ELSE ep[fd]]

\* WebServer::SendError_: send(fd, info), close(fd); nothing else is touched
SendError_ ==
    busy' = busy + 1

\* WebServer::DealListen_: one accept when the listener is level-triggered, a
\* loop of accepts when it is edge-triggered. n connections are pending. Each
\* turn tests userCount >= MAX_FD before AddClient_: the first `room` are added,
\* the next one is answered "Server busy!" and closed, and the function returns.
DealListen__OffByOne ==
    /\ rpc = "loop"
    /\ \E n \in 1..NumFds :
        LET room == (MAX_FD + 1) - userCount
            k == IF room >= n THEN n ELSE IF room > 0 THEN room ELSE 0
        IN  /\ n <= MaxAccepts - accepts
            /\ k <= Cardinality({fd \in FDs : ~sock[fd]})
            /\ (n > 1 => ListenET(trigMode))
            /\ AddClients(LowestFree(k))
            /\ IF k < n
               THEN SendError_ /\ accepts' = accepts + k + 1
               ELSE busy' = busy /\ accepts' = accepts + k
    /\ rpc' = "loop"
    /\ UNCHANGED <<trigMode, mmFile, toWrite, keepAlive, rfd, tasks, wpc, wfd, httpVars, libVars>>
DealListen_ ==
    /\ rpc = "loop"
    /\ \E n \in 1..NumFds :
        LET room == MAX_FD - userCount
            k == IF room >= n THEN n ELSE IF room > 0 THEN room ELSE 0
        IN  /\ n <= MaxAccepts - accepts
            /\ k <= Cardinality({fd \in FDs : ~sock[fd]})
            /\ (n > 1 => ListenET(trigMode))
            /\ AddClients(LowestFree(k))
            /\ IF k < n
               THEN SendError_ /\ accepts' = accepts + k + 1
               ELSE busy' = busy /\ accepts' = accepts + k
    /\ rpc' = "loop"
    /\ UNCHANGED <<trigMode, mmFile, toWrite, keepAlive, rfd, tasks, wpc, wfd, httpVars, libVars>>

\* HeapTimer::tick (from GetNextTick, at the top of every turn of the loop in
\* Start), one node that is due: the callback CloseConn_(&users_[id]) up to the
\* test in Close; a connection found closed is left alone and the node is popped.
\* Deadlines are points in time, so a node can fall due just after tick has
\* looked at it: the events of the turn are then handled before it is run.
TickFireOn(fd) ==
    /\ rpc = "loop"
    /\ fd \in Expired
    /\ CloseBegin(fd)
    /\ IF CloseGuard(fd)
       THEN rpc' = "cb_close" /\ rfd' = fd /\ timer' = timer
       ELSE rpc' = "loop" /\ rfd' = rfd /\ timer' = TimerPop(timer, fd)
    /\ UNCHANGED <<trigMode, users, isClose, toWrite, keepAlive, rdable, userCount, sock,
                   tasks, wpc, wfd, accepts, busy, httpVars, libVars>>
TickFire == \E fd \in FDs : TickFireOn(fd)

\* the rest of HttpConn::Close on the reactor thread; tick() then pops the node
ReactorCloseAct ==
    /\ rpc \in {"cb_close", "ev_close"}
    /\ CloseAct(rfd)
    /\ timer' = IF rpc = "cb_close" THEN TimerPop(timer, rfd) ELSE timer
    /\ rpc' = "loop"
    /\ rfd' = 0
    /\ UNCHANGED <<trigMode, users, mmFile, toWrite, keepAlive, rdable, tasks, wpc, wfd,
                   accepts, busy, httpVars, libVars>>

\* an armed descriptor reports EPOLLRDHUP | EPOLLHUP | EPOLLERR: CloseConn_
DealHup(fd) ==
    /\ rpc = "loop"
    /\ ep[fd] \in {"IN", "OUT"}
    /\ CloseBegin(fd)
    /\ IF CloseGuard(fd)
       THEN rpc' = "ev_close" /\ rfd' = fd
       ELSE rpc' = "loop" /\ rfd' = rfd
    /\ UNCHANGED <<trigMode, users, isClose, toWrite, keepAlive, rdable, userCount, sock,
                   timer, tasks, wpc, wfd, accepts, busy, httpVars, libVars>>

\* WebServer::DealRead_ / DealWrite_: ExtentTime_, then AddTask(OnRead_ / OnWrite_);
\* the event has disarmed the one-shot registration
Dispatch(fd, op) ==
    /\ rpc = "loop"
    /\ ep[fd] = (IF op = "read" THEN "IN" ELSE "OUT")
    /\ ep' = [ep EXCEPT ![fd] = "off"]
    /\ timer' = TimerAdjust(timer, fd)
    /\ tasks' = Append(tasks, <<op, fd>>)
    /\ rpc' = "loop"
    /\ UNCHANGED <<trigMode, users, isClose, mmFile, toWrite, keepAlive, rdable, userCount,
                   sock, rfd, wpc, wfd, accepts, busy, httpVars, libVars>>
DealRead_(fd) == Dispatch(fd, "read")
DealWrite_(fd) == Dispatch(fd, "write")

\* the clock advances one step
TimePasses ==
    /\ \E fd \in FDs : timer[fd] > 0
    /\ timer' = [fd \in FDs |-> IF timer[fd] > 0 THEN timer[fd] - 1 ELSE timer[fd]]
    /\ UNCHANGED <<trigMode, users, isClose, mmFile, toWrite, keepAlive, rdable, userCount,
                   sock, ep, rpc, rfd, tasks, wpc, wfd, accepts, busy, httpVars, libVars>>

Reactor ==
    \/ DealListen_
    \/ TickFire
    \/ ReactorCloseAct
    \/ \E fd \in FDs : DealHup(fd)
    \/ \E fd \in FDs : DealRead_(fd)
    \/ \E fd \in FDs : DealWrite_(fd)

(* ------------------------------ the workers ----------------------------- *)
\* HttpConn::read: <<bytes were stored, how the last ReadFd ended>>.  Level-
\* triggered it is one ReadFd; edge-triggered the loop ends on a result <= 0.
\* On a closed descriptor ReadFd fails with EBADF.
ReadResults(et, open) ==
    IF ~open THEN {<<FALSE, "fatal">>}
    ELSE IF et THEN BOOLEAN \X {"eagain", "fatal"}
    ELSE {<<TRUE, "pos">>, <<FALSE, "eagain">>, <<FALSE, "fatal">>}

\* a worker thread takes an OnRead_ task from the head of the queue and runs
\* it up to the call of OnProcess or of CloseConn_; r is what HttpConn::read did
OnReadResult(w, r) ==
    /\ wpc[w] = "idle"
    /\ tasks # <<>>
    /\ Head(tasks)[1] = "read"
    /\ tasks' = Tail(tasks)
    /\ LET fd == Head(tasks)[2] IN
        /\ r \in ReadResults(isET, sock[fd])
        /\ rdable' = [rdable EXCEPT ![fd] = @ \/ r[1]]
        /\ wpc' = [wpc EXCEPT ![w] = IF r[2] = "fatal" THEN "Close" ELSE "OnProcess"]
        /\ wfd' = [wfd EXCEPT ![w] = fd]
    /\ UNCHANGED <<trigMode, users, isClose, mmFile, toWrite, keepAlive, userCount,
                   sock, ep, timer, rpc, rfd, accepts, busy, httpVars, libVars>>
OnRead_(w) == \E r \in BOOLEAN \X {"pos", "eagain", "fatal"} : OnReadResult(w, r)

\* WebServer::OnProcess: HttpConn::process, then the re-arm.  With bytes in the
\* read buffer the request is parsed and a response assembled: the request's
\* keep-alive and whether the file could be mapped are the request's doing.
OnProcess(w) ==
    /\ wpc[w] = "OnProcess"
    /\ LET fd == wfd[w] IN
        IF ~rdable[fd]
        THEN /\ keepAlive' = [keepAlive EXCEPT ![fd] = FALSE]
             /\ ep' = ModFd(ep, sock, fd, "IN")
             /\ UNCHANGED <<mmFile, toWrite, rdable>>
        ELSE /\ \E ka \in BOOLEAN, mapped \in BOOLEAN :
                /\ keepAlive' = [keepAlive EXCEPT ![fd] = ka]
                /\ mmFile' = [mmFile EXCEPT ![fd] = mapped]
             /\ toWrite' = [toWrite EXCEPT ![fd] = 1]
             /\ rdable' = [rdable EXCEPT ![fd] = FALSE]
             /\ ep' = ModFd(ep, sock, fd, "OUT")
    /\ wpc' = [wpc EXCEPT ![w] = "idle"]
    /\ wfd' = [wfd EXCEPT ![w] = 0]
    /\ UNCHANGED <<trigMode, users, isClose, userCount, sock, timer, rpc, rfd, tasks,
                   accepts, busy, httpVars, libVars>>

\* HttpConn::write: <<ToWriteBytes() afterwards, how the last writev ended>>.
\* Edge-triggered the loop ends only on a result <= 0; level-triggered it also
\* ends after a writev that leaves no more than 10240 bytes.  On a closed
\* descriptor writev fails with EBADF.
WriteResults(et, open, n) ==
    IF ~open THEN {<<n, "fatal">>}
    ELSE IF n = 0 THEN {<<0, "ok">>}
    ELSE {<<0, "ok">>, <<n, "eagain">>, <<n, "fatal">>}
         \cup (IF et THEN {} ELSE {<<n, "ok">>})

\* a worker thread takes an OnWrite_ task from the head of the queue and runs
\* it up to its return or the call of CloseConn_; r is what HttpConn::write did
OnWriteResult(w, r) ==
    /\ wpc[w] = "idle"
    /\ tasks # <<>>
    /\ Head(tasks)[1] = "write"
    /\ tasks' = Tail(tasks)
    /\ LET fd == Head(tasks)[2] IN
        /\ r \in WriteResults(isET, sock[fd], toWrite[fd])
        /\ toWrite' = [toWrite EXCEPT ![fd] = r[1]]
        /\ IF r[1] = 0 /\ keepAlive[fd]
           THEN /\ ep' = ModFd(ep, sock, fd, "IN")
                /\ UNCHANGED <<wpc, wfd>>
           ELSE IF r[1] # 0 /\ r[2] = "eagain"
           THEN /\ ep' = ModFd(ep, sock, fd, "OUT")
                /\ UNCHANGED <<wpc, wfd>>
           ELSE /\ ep' = ep
                /\ wpc' = [wpc EXCEPT ![w] = "Close"]
                /\ wfd' = [wfd EXCEPT ![w] = fd]
    /\ UNCHANGED <<trigMode, users, isClose, mmFile, keepAlive, rdable, userCount,
                   sock, timer, rpc, rfd, accepts, busy, httpVars, libVars>>
OnWrite_(w) == \E r \in {0, 1} \X {"ok", "eagain", "fatal"} : OnWriteResult(w, r)

\* CloseConn_ on a worker thread, up to the test in HttpConn::Close
WorkerClose(w) ==
    /\ wpc[w] = "Close"
    /\ CloseBegin(wfd[w])
    /\ IF CloseGuard(wfd[w])
       THEN wpc' = [wpc EXCEPT ![w] = "CloseAct"] /\ wfd' = wfd
       ELSE wpc' = [wpc EXCEPT ![w] = "idle"] /\ wfd' = [wfd EXCEPT ![w] = 0]
    /\ UNCHANGED <<trigMode, users, isClose, toWrite, keepAlive, rdable, userCount, sock,
                   timer, rpc, rfd, tasks, accepts, busy, httpVars, libVars>>

\* CloseConn_ on a worker thread that also takes the connection's node out of
\* the timer
WorkerCloseAct_DelTimer(w) ==
    /\ wpc[w] = "CloseAct"
    /\ CloseAct(wfd[w])
    /\ timer' = [timer EXCEPT ![wfd[w]] = NoTimer]
    /\ wpc' = [wpc EXCEPT ![w] = "idle"]
    /\ wfd' = [wfd EXCEPT ![w] = 0]
    /\ UNCHANGED <<trigMode, users, mmFile, toWrite, keepAlive, rdable, rpc, rfd,
                   tasks, accepts, busy, httpVars, libVars>>
\* the rest of HttpConn::Close on a worker thread
WorkerCloseAct(w) ==
    /\ wpc[w] = "CloseAct"
    /\ CloseAct(wfd[w])
    /\ wpc' = [wpc EXCEPT ![w] = "idle"]
    /\ wfd' = [wfd EXCEPT ![w] = 0]
    /\ UNCHANGED <<trigMode, users, mmFile, toWrite, keepAlive, rdable, timer, rpc, rfd,
                   tasks, accepts, busy, httpVars, libVars>>

Worker(w) ==
    \/ OnRead_(w)
    \/ OnProcess(w)
    \/ OnWrite_(w)
    \/ WorkerClose(w)
    \/ WorkerCloseAct(w)

\* an HttpResponse just constructed: code_ = -1, no file mapped
NoResponse == [initCode |-> -1, reqPath |-> "", code |-> -1, path |-> "",
               isKeepAlive |-> FALSE, mmFile |-> FALSE, kind |-> "none",
               headers |-> <<>>, contentLength |-> -1, bodyLen |-> 0]

(* ------------------- HeapTimer and ThreadPool, unused ------------------- *)
Ids == 1..MaxIds
\* the id field of whatever lies in memory next to the vector's storage
GarbageId == MaxIds + 1
\* ref_ has no entry for the id
NoIdx == -1
\* HeapTimer::HeapTimer: an empty heap_
TimerIdle ==
    /\ heap_ = <<>>
    /\ ref_ = [id \in Ids \cup {GarbageId} |-> NoIdx]
    /\ now = 0
    /\ fault = "ok"
    /\ fired = <<>>
    /\ ret = 0
    /\ top = "none"
PoolThreads == 1..NumThreads
PoolTaskIds == 1..MaxTasks
\* a ThreadPool that was not constructed
PoolIdle ==
    /\ poolTasks = <<>>
    /\ isClosed = FALSE
    /\ added = 0
    /\ thr = [t \in PoolThreads |-> "off"]
    /\ thrTask = [t \in PoolThreads |-> 0]
    /\ took = <<>>
    /\ ran = [k \in PoolTaskIds |-> 0]
    /\ dtor = "none"
Producers == 1..NumProducers
Consumers == 1..NumConsumers
\* a BlockQueue that was not constructed
QueueIdle ==
    /\ deq_ = <<>>
    /\ bqClose = FALSE
    /\ prod = [p \in Producers |-> "off"]
    /\ cons = [c \in Consumers |-> "off"]
    /\ stored = 0
    /\ popped = <<>>
    /\ closer = "none"
LogWriters == 1..NumLoggers
\* the log files by rotation index: 0 is the file without a suffix
FileIds == 0..((MAX_LINES + MaxLines) \div MAX_LINES)
\* fp_ == nullptr
NoFile == -1
\* Log::Log: no file, no queue, no writer thread
LogIdle ==
    /\ isAsync_ = FALSE
    /\ made = 0
    /\ lineCount_ = 0
    /\ fp_ = NoFile
    /\ files = [f \in FileIds |-> <<>>]
    /\ accepted = 0
    /\ lw = [p \in LogWriters |-> "off"]
    /\ lwFile = [p \in LogWriters |-> 0]
    /\ wr = "none"
    /\ wrLine = 0
    /\ ldtor = "none"
\* the descriptors of SpecMode: 0 is listenFd_, the others are clients
RegFds == 0..NumRegFds
\* the WebServer object outside SpecBoot and SpecMode
BootIdle ==
    /\ listenEvent_ = {}
    /\ connEvent_ = {}
    /\ srvClose = FALSE
    /\ boot = "none"
    /\ regs = [fd \in RegFds |-> {}]
\* mmFile_ == nullptr
NoMap == 0
\* the HttpConn object outside SpecIov
IovIdle ==
    /\ cst = "none"
    /\ wbuf = 0
    /\ iov0 = [off |-> 0, len |-> 0]
    /\ iov1 = [map |-> NoMap, off |-> 0, len |-> 0]
    /\ iovCnt_ = 0
    /\ mmFile_ = NoMap
    /\ maps = <<>>
    /\ resp_ = [H |-> 0, F |-> 0, ka |-> FALSE]
    /\ sent = <<>>
    /\ wret = "none"
\* no DealListen_ has run
ListenIdle ==
    /\ lTrig = 0
    /\ backlog = 0
    /\ lUsers = 0
    /\ lAdded = 0
    /\ lBusy = FALSE
\* no Log::write has touched the buffer
BuffIdle ==
    /\ bpc = "none"
    /\ readPos_ = 0
    /\ writePos_ = 0
    /\ bufSize = 0
    /\ overrun = FALSE
LibIdle ==
    /\ TimerIdle /\ PoolIdle /\ QueueIdle /\ LogIdle /\ BootIdle /\ IovIdle /\ ListenIdle
    /\ BuffIdle

(* --------------------------- the specification -------------------------- *)
HttpIdle ==
    /\ hwire = <<>>
    /\ hbuf = <<>>
    /\ hres = "none"
    /\ hfs = TRUE
    /\ hstate = "REQUEST_LINE"
    /\ hpath = ""
    /\ hka = FALSE
    /\ hpc = "off"
    /\ resp = NoResponse

\* the state the constructors leave: WebServer::WebServer, HttpConn::HttpConn
Init ==
    /\ trigMode \in 0..3
    /\ users = {}
    /\ isClose = [fd \in FDs |-> TRUE]
    /\ mmFile = [fd \in FDs |-> FALSE]
    /\ toWrite = [fd \in FDs |-> 0]
    /\ keepAlive = [fd \in FDs |-> FALSE]
    /\ rdable = [fd \in FDs |-> FALSE]
    /\ userCount = 0
    /\ sock = [fd \in FDs |-> FALSE]
    /\ ep = [fd \in FDs |-> "none"]
    /\ timer = [fd \in FDs |-> NoTimer]
    /\ rpc = "loop"
    /\ rfd = 0
    /\ tasks = <<>>
    /\ wpc = [w \in Workers |-> "idle"]
    /\ wfd = [w \in Workers |-> 0]
    /\ accepts = 0
    /\ busy = 0
    /\ HttpIdle
    /\ LibIdle

Next ==
    \/ Reactor
    \/ TimePasses
    \/ \E w \in Workers : Worker(w)

Spec == Init /\ [][Next]_vars

\* the fairness of the code: the reactor thread runs, and every turn of its loop
\* starts with GetNextTick; the clock advances
LiveSpec ==
    /\ Spec
    /\ WF_vars(TickFire)
    /\ WF_vars(ReactorCloseAct)
    /\ WF_vars(TimePasses)


(* ------------------------- the server when full ------------------------- *)
\* The server with MAX_FD - 1 or MAX_FD connections open on descriptors other
\* than FDs, which their peers keep open, and with the descriptors of FDs used
\* and closed before: users_ keeps their entries, Close has reset each of them.
InitFull ==
    /\ trigMode \in 0..3
    /\ users = FDs
    /\ isClose = [fd \in FDs |-> TRUE]
    /\ mmFile = [fd \in FDs |-> FALSE]
    /\ toWrite = [fd \in FDs |-> 0]
    /\ keepAlive = [fd \in FDs |-> FALSE]
    /\ rdable = [fd \in FDs |-> FALSE]
    /\ userCount \in {MAX_FD - 1, MAX_FD}
    /\ sock = [fd \in FDs |-> FALSE]
    /\ ep = [fd \in FDs |-> "none"]
    /\ timer = [fd \in FDs |-> NoTimer]
    /\ rpc = "loop"
    /\ rfd = 0
    /\ tasks = <<>>
    /\ wpc = [w \in Workers |-> "idle"]
    /\ wfd = [w \in Workers |-> 0]
    /\ accepts = 0
    /\ busy = 0
    /\ HttpIdle
    /\ LibIdle

SpecFull == InitFull /\ [][Next]_vars

(* ===================== one connection, sequentially ===================== *)
(* ---------------------------- the file system --------------------------- *)
\* the request paths; "" is srcDir itself
Paths == {"", "/index.html", "/empty.html", "/secret.html", "/img", "/private",
          "/nofile.html"}
\* what stat() reports for srcDir + path: whether it succeeds, S_ISDIR and
\* S_IROTH of st_mode, and st_size
FileStat(path) ==
    CASE path = "/index.html" ->
            [exists |-> TRUE, isDir |-> FALSE, roth |-> TRUE, size |-> 5]
      [] path = "/empty.html" ->
            [exists |-> TRUE, isDir |-> FALSE, roth |-> TRUE, size |-> 0]
      [] path = "/secret.html" ->
            [exists |-> TRUE, isDir |-> FALSE, roth |-> FALSE, size |-> 7]
      [] path = "/nofile.html" ->
            [exists |-> FALSE, isDir |-> FALSE, roth |-> FALSE, size |-> 0]
      [] path = "/private" ->
            [exists |-> TRUE, isDir |-> TRUE, roth |-> FALSE, size |-> 4]
      [] OTHER ->
            [exists |-> TRUE, isDir |-> TRUE, roth |-> TRUE, size |-> 4]

(* ----------------------------- HttpResponse ----------------------------- *)
\* HttpResponse::CODE_STATUS, CODE_PATH
CODE_STATUS == {200, 400, 403, 404}
CODE_PATH(code) ==
    CASE code = 400 -> "/400.html"
      [] code = 403 -> "/403.html"
      [] code = 404 -> "/404.html"
ErrorPages == {"/400.html", "/403.html", "/404.html"}

\* MakeResponse, the test of the requested file: stat fails or S_ISDIR -> 404,
\* no S_IROTH -> 403, code_ == -1 -> 200
StatCode_NoDirTest(code, st) ==
    IF ~st.exists THEN 404
    ELSE IF ~st.roth THEN 403
    ELSE IF code = -1 THEN 200
    ELSE code
StatCode(code, st) ==
    IF ~st.exists \/ st.isDir THEN 404
    ELSE IF ~st.roth THEN 403
    ELSE IF code = -1 THEN 200
    ELSE code

\* ErrorHtml_: the path served for a code that has an error page
ErrorHtml_(code, path) == IF code \in {400, 403, 404} THEN CODE_PATH(code) ELSE path

\* AddStateLine_: a code without a status text becomes 400
AddStateLine_(code) == IF code \in CODE_STATUS THEN code ELSE 400

\* mmFileStat_.st_size when AddContent_ runs: of the requested file, or of the
\* error page ErrorHtml_ has stat'ed again; a stat that fails leaves the
\* structure as it was (zero after Init)
StatSize(reqPath, path, pages) ==
    LET st == FileStat(reqPath)
        before == IF st.exists THEN st.size ELSE 0
    IN  IF path \in ErrorPages /\ pages THEN 3 ELSE before

\* AddHeader_: the header lines it appends, by name
AddHeader_(ka) ==
    <<"Connection">> \o (IF ka THEN <<"keep-alive">> ELSE <<>>) \o <<"Content-type">>

\* the length of the text of a status in CODE_STATUS
StatusLen(code) ==
    CASE code = 200 -> 2
      [] code = 400 -> 11
      [] code = 403 -> 9
      [] code = 404 -> 9
      [] OTHER -> 11

\* ErrorContent: the Content-length line and the inline HTML body
ErrorContent(code) ==
    [kind |-> "inline", mmFile |-> FALSE, headers |-> <<"Content-length">>,
     contentLength |-> 117 + StatusLen(code), bodyLen |-> 117 + StatusLen(code)]

\* what the read of *mmRet can do when mmap has returned MAP_FAILED, the address
\* (void*)-1: fault, or yield -1, or yield another value
MmapFailedReads == {"fault", "minus1", "other"}

\* AddContent_: open() of srcDir + path_, mmap of st_size bytes (a length of 0
\* makes mmap fail), the test *mmRet == -1, the Content-length line
AddContent_(code, path, pages, size, rd) ==
    IF ~(IF path \in ErrorPages THEN pages ELSE FileStat(path).exists)
    THEN ErrorContent(code)
    ELSE IF size > 0
    THEN [kind |-> "mapped", mmFile |-> TRUE, headers |-> <<"Content-length">>,
          contentLength |-> size, bodyLen |-> size]
    ELSE CASE rd = "fault" ->
                [kind |-> "crash", mmFile |-> FALSE, headers |-> <<>>,
                 contentLength |-> -1, bodyLen |-> 0]
           [] rd = "minus1" -> ErrorContent(code)
           [] OTHER ->
                [kind |-> "mapped", mmFile |-> TRUE, headers |-> <<"Content-length">>,
                 contentLength |-> size, bodyLen |-> 0]

\* HttpResponse::Init followed by MakeResponse
MakeResponse(code, path, ka, pages, rd) ==
    LET c1 == StatCode(code, FileStat(path))
        p1 == ErrorHtml_(c1, path)
        c2 == AddStateLine_(c1)
        ct == AddContent_(c2, p1, pages, StatSize(path, p1, pages), rd)
    IN  [initCode |-> code, reqPath |-> path, code |-> c2, path |-> p1,
         isKeepAlive |-> ka, mmFile |-> ct.mmFile, kind |-> ct.kind,
         headers |-> AddHeader_(ka) \o ct.headers,
         contentLength |-> ct.contentLength, bodyLen |-> ct.bodyLen]

(* ------------------------------ HttpRequest ----------------------------- *)
\* the lines of one request, as the peer sends them
RL(path) == <<"RL", path>>
Hdr(ka) == <<"H", ka>>
Empty == <<"E", "">>
BadLine == <<"BAD", "">>
\* bytes of a request line without its CRLF
Frag == <<"FRAG", "">>
GoodRequests == {<<RL(p), Hdr(ka), Empty>> : p \in Paths \ {""}, ka \in BOOLEAN}
Requests == GoodRequests \cup {<<BadLine, Empty>>, <<Frag>>}

\* HttpRequest::Init
RequestInit == [state |-> "REQUEST_LINE", path |-> "", ka |-> FALSE]

\* HttpRequest::parse from state q over the lines buf: one line at a time while
\* there is a complete line and the state is not FINISH.  The result says how it
\* ended: "finish" (parse returns true), "bad" (the request line did not match),
\* "more" (the lines ran out first; both return false).
RECURSIVE parse(_, _)
parse(q, buf) ==
    IF q.state = "FINISH" THEN [q |-> q, buf |-> buf, why |-> "finish"]
    ELSE IF buf = <<>> \/ Head(buf) = Frag THEN [q |-> q, buf |-> buf, why |-> "more"]
    ELSE LET line == Head(buf) IN
        IF q.state = "REQUEST_LINE"
        THEN IF line[1] = "RL"
             THEN parse([q EXCEPT !.state = "HEADERS", !.path = line[2]], Tail(buf))
             ELSE [q |-> q, buf |-> Tail(buf), why |-> "bad"]
        ELSE IF line[1] = "E"
             THEN parse([q EXCEPT !.state = "FINISH"], Tail(buf))
        ELSE IF line[1] = "H"
             THEN parse([q EXCEPT !.ka = line[2]], Tail(buf))
        ELSE parse(q, Tail(buf))

(* ------------------------------- HttpConn ------------------------------- *)
\* the arguments HttpConn::process passes to HttpResponse::Init
ProcessCode(why) == IF why = "finish" THEN 200 ELSE 400
ProcessKeepAlive(why, ka) == IF why = "finish" THEN ka ELSE FALSE

\* OnRead_ reads what has arrived of the peer's bytes: k more lines (none when
\* the read ends in EAGAIN at once)
HttpRead ==
    /\ hpc = "read"
    /\ \E k \in 0..Len(hwire) :
        /\ hbuf' = hbuf \o SubSeq(hwire, 1, k)
        /\ hwire' = SubSeq(hwire, k + 1, Len(hwire))
    /\ hpc' = "process"
    /\ UNCHANGED <<libVars, srvVars, hstate, hpath, hka, hres, hfs, resp>>

\* OnProcess: HttpConn::process and the re-arm (OUT when process returns true,
\* IN when it returns false)
HttpProcess ==
    /\ hpc = "process"
    /\ IF hbuf = <<>>
       THEN /\ hstate' = RequestInit.state /\ hpath' = RequestInit.path
            /\ hka' = RequestInit.ka
            /\ hpc' = "read"
            /\ UNCHANGED <<hbuf, hres, resp>>
       ELSE LET r == parse(RequestInit, hbuf) IN
            /\ hbuf' = r.buf
            /\ hstate' = r.q.state /\ hpath' = r.q.path /\ hka' = r.q.ka
            /\ hres' = r.why
            /\ \E rd \in MmapFailedReads :
                resp' = MakeResponse(ProcessCode(r.why), r.q.path,
                                     ProcessKeepAlive(r.why, r.q.ka), hfs, rd)
            /\ hpc' = IF resp'.kind = "crash" THEN "crashed" ELSE "write"
    /\ UNCHANGED <<libVars, srvVars, hwire, hfs>>

\* OnWrite_ with the whole response written: re-arm for IN when the request is
\* keep-alive, CloseConn_ otherwise
HttpWrite ==
    /\ hpc = "write"
    /\ hpc' = IF hka THEN "read" ELSE "closed"
    /\ UNCHANGED <<libVars, srvVars, hwire, hbuf, hstate, hpath, hka, hres, hfs, resp>>

\* the peer sends nothing more and the idle timer closes the connection
HttpTimeout ==
    /\ hpc = "read"
    /\ hwire = <<>>
    /\ hpc' = "closed"
    /\ UNCHANGED <<libVars, srvVars, hwire, hbuf, hstate, hpath, hka, hres, hfs, resp>>

\* no server thread runs in SpecHttp and SpecResp
ServerDown ==
    /\ users = {}
    /\ isClose = [fd \in FDs |-> TRUE]
    /\ mmFile = [fd \in FDs |-> FALSE]
    /\ toWrite = [fd \in FDs |-> 0]
    /\ keepAlive = [fd \in FDs |-> FALSE]
    /\ rdable = [fd \in FDs |-> FALSE]
    /\ userCount = 0
    /\ sock = [fd \in FDs |-> FALSE]
    /\ ep = [fd \in FDs |-> "none"]
    /\ timer = [fd \in FDs |-> NoTimer]
    /\ rpc = "off"
    /\ rfd = 0
    /\ tasks = <<>>
    /\ wpc = [w \in Workers |-> "off"]
    /\ wfd = [w \in Workers |-> 0]
    /\ accepts = 0
    /\ busy = 0
ServerOff == trigMode = 0 /\ ServerDown

\* what the peer sends on the connection: up to MaxRequests requests
RECURSIVE Wires(_)
Wires(n) ==
    IF n = 0 THEN {<<>>}
    ELSE Wires(n - 1) \cup
         {w \o r : w \in {v \in Wires(n - 1) : v = <<>> \/ v[Len(v)] # Frag},
                   r \in Requests}

\* a connection just accepted (HttpConn::init), the peer about to send
HttpInit ==
    /\ ServerOff
    /\ LibIdle
    /\ hwire \in Wires(MaxRequests) \ {<<>>}
    /\ hbuf = <<>>
    /\ hstate = RequestInit.state
    /\ hpath = RequestInit.path
    /\ hka = RequestInit.ka
    /\ hres = "none"
    /\ hfs \in BOOLEAN
    /\ hpc = "read"
    /\ resp = NoResponse

HttpNext ==
    \/ HttpRead
    \/ HttpProcess
    \/ HttpWrite
    \/ HttpTimeout

SpecHttp == HttpInit /\ [][HttpNext]_vars

(* ================== HttpResponse::MakeResponse by itself ================= *)
\* the codes HttpResponse::Init is given: its default, and those of process
InitCodes == {-1, 200, 400}

RespInit ==
    /\ ServerOff
    /\ LibIdle
    /\ hwire = <<>> /\ hbuf = <<>> /\ hres = "none"
    /\ hstate = RequestInit.state /\ hpath \in Paths /\ hka \in BOOLEAN
    /\ hfs \in BOOLEAN
    /\ hpc = "init"
    /\ \E code \in InitCodes : resp = [NoResponse EXCEPT !.initCode = code]

RespMake ==
    /\ hpc = "init"
    /\ \E rd \in MmapFailedReads :
        resp' = MakeResponse(resp.initCode, hpath, hka, hfs, rd)
    /\ hpc' = IF resp'.kind = "crash" THEN "crashed" ELSE "made"
    /\ UNCHANGED <<libVars, srvVars, hwire, hbuf, hstate, hpath, hka, hres, hfs>>

RespNext == RespMake

SpecResp == RespInit /\ [][RespNext]_vars

(* ============================ HeapTimer alone =========================== *)
\* how a read of heap_[parent] with parent = (size_t)(0 - 1) / 2 can end:
\* the value found there does not compare greater (the loop breaks), or it does
\* and SwapNode_'s assert stops the process, or, built without asserts, the node
\* is swapped with the memory outside the vector
OobReads == {"notgreater", "abort", "swap"}
\* the index (size_t)(0 - 1) / 2
WrappedParent == MaxIds + 1

\* the timer as the operations below take and return it
Timer == [heap |-> heap_, ref |-> ref_, fault |-> fault, fired |-> <<>>]

\* duration_cast<MS>(d).count(): the quotient truncated towards zero
DurationMs(d) == IF d >= 0 THEN d \div TicksPerMs ELSE -((-d) \div TicksPerMs)
\* Clock::now() + MS(timeOut)
Deadline(nw, timeOut) == nw + timeOut * TicksPerMs

\* HeapTimer::SwapNode_, indexes from 0
SwapNode_(t, i, j) ==
    LET h == [t.heap EXCEPT ![i + 1] = t.heap[j + 1], ![j + 1] = t.heap[i + 1]]
    IN  [t EXCEPT !.heap = h,
                  !.ref = [t.ref EXCEPT ![h[i + 1].id] = i, ![h[j + 1].id] = j]]

\* HeapTimer::siftup_: parent is a size_t, so `parent >= 0` always holds and at
\* i = 0 the loop reads heap_[WrappedParent]
RECURSIVE siftup_(_, _, _)
siftup_(t, i, oob) ==
    IF i = 0
    THEN CASE oob = "notgreater" -> t
           [] oob = "abort" -> [t EXCEPT !.fault = "abort"]
           [] oob = "swap" ->
                [t EXCEPT !.heap[1] = [id |-> GarbageId, expires |-> t.heap[1].expires + 1],
                          !.ref = [t.ref EXCEPT ![GarbageId] = 0,
                                                ![t.heap[1].id] = WrappedParent],
                          !.fault = "swap"]
    ELSE LET parent == (i - 1) \div 2
         IN  IF t.heap[parent + 1].expires > t.heap[i + 1].expires
             THEN siftup_(SwapNode_(t, i, parent), parent, oob)
             ELSE t

\* the indexes of heap_ that siftup_(i) reads: heap_[parent] and heap_[i] in
\* every turn of its loop, as long as the parent compares greater
RECURSIVE siftupReads(_, _)
siftupReads(t, i) ==
    IF i = 0 THEN {WrappedParent, 0}
    ELSE LET parent == (i - 1) \div 2
         IN  {parent, i} \cup
             (IF t.heap[parent + 1].expires > t.heap[i + 1].expires
              THEN siftupReads(SwapNode_(t, i, parent), parent)
              ELSE {})

\* the loop of HeapTimer::siftdown_: the timer and the index the node ends at
RECURSIVE siftdownLoop(_, _, _)
siftdownLoop(t, index, n) ==
    LET first == 2 * index + 1
        child == IF first + 1 < n /\ t.heap[first + 2].expires < t.heap[first + 1].expires
                 THEN first + 1 ELSE first
    IN  IF first < n /\ t.heap[child + 1].expires < t.heap[index + 1].expires
        THEN siftdownLoop(SwapNode_(t, index, child), child, n)
        ELSE [t |-> t, index |-> index]
\* HeapTimer::siftdown_: returns index > i
siftdown_(t, i, n) ==
    LET r == siftdownLoop(t, i, n) IN [t |-> r.t, moved |-> r.index > i]

\* HeapTimer::del_
del_(t, index, oob) ==
    LET n == Len(t.heap) - 1
        d == siftdown_(SwapNode_(t, index, n), index, n)
        t1 == IF index < n
              THEN IF d.moved THEN d.t ELSE siftup_(d.t, index, oob)
              ELSE t
    IN  IF t1.fault # "ok" THEN t1
        ELSE [t1 EXCEPT !.ref = [t1.ref EXCEPT ![t1.heap[n + 1].id] = NoIdx],
                        !.heap = SubSeq(t1.heap, 1, n)]

\* HeapTimer::adjust: the new deadline, then siftdown_ only (adjust_NoSift: the
\* new deadline and no sift-down)
adjust_NoSift(t, id, newExpires, nw) ==
    [t EXCEPT !.heap[t.ref[id] + 1].expires = Deadline(nw, newExpires)]
adjust(t, id, newExpires, nw) ==
    siftdown_([t EXCEPT !.heap[t.ref[id] + 1].expires = Deadline(nw, newExpires)],
              t.ref[id], Len(t.heap)).t

\* HeapTimer::add
add(t, id, timeOut, nw, oob) ==
    IF t.ref[id] # NoIdx
    THEN LET tmp == t.ref[id]
             d == siftdown_([t EXCEPT !.heap[tmp + 1].expires = Deadline(nw, timeOut)],
                            tmp, Len(t.heap))
         IN  IF d.moved THEN d.t ELSE siftup_(d.t, tmp, oob)
    ELSE LET n == Len(t.heap)
         IN  siftup_([t EXCEPT !.ref = [t.ref EXCEPT ![id] = n],
                               !.heap = Append(t.heap, [id |-> id,
                                                        expires |-> Deadline(nw, timeOut)])],
                     n, oob)

\* the indexes of heap_ that the siftup_ called by add(id, timeOut) reads (none
\* when add calls no siftup_ because siftdown_ has moved the node)
addReads(t, id, timeOut, nw) ==
    IF t.ref[id] # NoIdx
    THEN LET tmp == t.ref[id]
             d == siftdown_([t EXCEPT !.heap[tmp + 1].expires = Deadline(nw, timeOut)],
                            tmp, Len(t.heap))
         IN  IF d.moved THEN {} ELSE siftupReads(d.t, tmp)
    ELSE LET n == Len(t.heap)
         IN  siftupReads([t EXCEPT !.ref = [t.ref EXCEPT ![id] = n],
                                   !.heap = Append(t.heap, [id |-> id,
                                                            expires |-> Deadline(nw, timeOut)])],
                         n)
\* heap_.size() when that siftup_ runs
addSize(t, id) == IF t.ref[id] # NoIdx THEN Len(t.heap) ELSE Len(t.heap) + 1

\* HeapTimer::doWork
doWork(t, id, oob) ==
    IF t.heap = <<>> \/ t.ref[id] = NoIdx THEN t
    ELSE LET i == t.ref[id]
         IN  del_([t EXCEPT !.fired = Append(t.fired, t.heap[i + 1])], i, oob)

\* HeapTimer::pop
pop(t, oob) == del_(t, 0, oob)

\* HeapTimer::tick
RECURSIVE tick(_, _, _)
tick(t, nw, oob) ==
    IF t.fault # "ok" \/ t.heap = <<>> THEN t
    ELSE LET node == t.heap[1]
         IN  IF DurationMs(node.expires - nw) > 0 THEN t
             ELSE tick(pop([t EXCEPT !.fired = Append(t.fired, node)], oob), nw, oob)

\* a value stored in a size_t: the number, and whether it wrapped by 2^64
SizeT(c) == [wrapped |-> c < 0, low |-> c]
\* `res < 0` on a size_t
SizeTBelowZero(res) == FALSE
\* a size_t returned as int: the low 32 bits, which for a wrapped small negative
\* number are that number again
ToInt(res) == res.low
\* HeapTimer::GetNextTick after its tick(): nw is the second reading of the clock
GetNextTick(t, nw) ==
    LET init == SizeT(-1)
        cnt == SizeT(DurationMs(t.heap[1].expires - nw))
        res == IF t.heap # <<>>
               THEN IF SizeTBelowZero(cnt) THEN SizeT(0) ELSE cnt
               ELSE init
    IN  ToInt(res)

\* the operation has left the timer t
Put(t, op) ==
    /\ heap_' = t.heap
    /\ ref_' = t.ref
    /\ fault' = t.fault
    /\ fired' = t.fired
    /\ top' = op

CallAdd ==
    /\ fault = "ok"
    /\ \E id \in Ids, timeOut \in 1..MaxTimeoutMs, oob \in OobReads :
        Put(add(Timer, id, timeOut, now, oob), "add")
    /\ UNCHANGED <<now, ret, notTimerVars>>

CallAdjust ==
    /\ fault = "ok"
    /\ \E id \in Ids, newExpires \in 1..MaxTimeoutMs :
        /\ heap_ # <<>> /\ ref_[id] # NoIdx
        /\ Put(adjust(Timer, id, newExpires, now), "adjust")
    /\ UNCHANGED <<now, ret, notTimerVars>>

CallDoWork ==
    /\ fault = "ok"
    /\ \E id \in Ids, oob \in OobReads : Put(doWork(Timer, id, oob), "doWork")
    /\ UNCHANGED <<now, ret, notTimerVars>>

CallTick ==
    /\ fault = "ok"
    /\ \E oob \in OobReads : Put(tick(Timer, now, oob), "tick")
    /\ UNCHANGED <<now, ret, notTimerVars>>

CallPop ==
    /\ fault = "ok"
    /\ heap_ # <<>>
    /\ \E oob \in OobReads : Put(pop(Timer, oob), "pop")
    /\ UNCHANGED <<now, ret, notTimerVars>>

\* GetNextTick: tick() reads the clock, and the clock is read again, lag ticks
\* later, for the value to return
CallGetNextTick ==
    /\ fault = "ok"
    /\ \E oob \in OobReads, lag \in 0..MaxNow :
        LET t == tick(Timer, now, oob)
        IN  /\ now + lag <= MaxNow
            /\ Put(t, "GetNextTick")
            /\ now' = now + lag
            /\ ret' = IF t.fault = "ok" THEN GetNextTick(t, now + lag) ELSE ret
    /\ UNCHANGED <<notTimerVars>>

\* time passes between two operations
Elapse ==
    /\ fault = "ok"
    /\ now < MaxNow
    /\ now' = now + 1
    /\ top' = "none"
    /\ fired' = <<>>
    /\ UNCHANGED <<heap_, ref_, fault, ret, notTimerVars>>

TimerInit ==
    /\ ServerOff
    /\ HttpIdle
    /\ LogIdle
    /\ BootIdle
    /\ IovIdle
    /\ ListenIdle
    /\ BuffIdle
    /\ TimerIdle
    /\ PoolIdle
    /\ QueueIdle

TimerNext ==
    \/ CallAdd
    \/ CallAdjust
    \/ CallDoWork
    \/ CallTick
    \/ CallPop
    \/ CallGetNextTick
    \/ Elapse

SpecTimer == TimerInit /\ [][TimerNext]_vars

(* ------------------- the timer as WebServer uses it -------------------- *)
\* WebServer::AddClient_: timer_->add(fd, timeoutMS_, CloseConn_), the one
\* configured timeout for every connection; a descriptor number that is used
\* again finds the node it had
SrvAddClient ==
    /\ fault = "ok"
    /\ \E id \in Ids, oob \in OobReads :
        Put(add(Timer, id, timeoutMS, now, oob), "add")
    /\ UNCHANGED <<now, ret, notTimerVars>>

\* WebServer::ExtentTime_: timer_->adjust(fd, timeoutMS_) for a connection that
\* has an event
SrvExtentTime ==
    /\ fault = "ok"
    /\ \E id \in Ids :
        /\ heap_ # <<>> /\ ref_[id] # NoIdx
        /\ Put(adjust(Timer, id, timeoutMS, now), "adjust")
    /\ UNCHANGED <<now, ret, notTimerVars>>

\* WebServer::Start: timer_->GetNextTick() at the top of every turn, between
\* the events; the clock only moves forward
ExtentNext ==
    \/ SrvAddClient
    \/ SrvExtentTime
    \/ CallTick
    \/ Elapse

SpecExtent == TimerInit /\ [][ExtentNext]_vars

(* ============================ ThreadPool alone ========================== *)
\* ThreadPool::AddTask: under the mutex, tasks.emplace(task) and
\* cond_.notify_one(), which wakes one waiting thread if there is one. The tasks
\* are numbered in the order they are added.
AddTask_NoNotify ==
    /\ dtor = "none"
    /\ added < MaxTasks
    /\ added' = added + 1
    /\ poolTasks' = Append(poolTasks, added + 1)
    /\ thr' = thr
    /\ UNCHANGED <<isClosed, thrTask, took, ran, notPoolVars,
                   dtor>>
AddTask ==
    /\ dtor = "none"
    /\ added < MaxTasks
    /\ added' = added + 1
    /\ poolTasks' = Append(poolTasks, added + 1)
    /\ IF \E t \in PoolThreads : thr[t] = "wait"
       THEN \E t \in PoolThreads :
                thr[t] = "wait" /\ thr' = [thr EXCEPT ![t] = "locked"]
       ELSE thr' = thr
    /\ UNCHANGED <<isClosed, thrTask, took, ran, notPoolVars,
                   dtor>>

\* one turn of a worker thread's loop, made with the mutex held: take the front
\* task and unlock, or leave the loop when the pool is closed, or wait on cond_
ThreadLoop_NoPop(t) ==
    /\ thr[t] = "locked"
    /\ dtor # "freed"
    /\ IF poolTasks # <<>>
       THEN /\ thrTask' = [thrTask EXCEPT ![t] = Head(poolTasks)]
            /\ poolTasks' = poolTasks
            /\ took' = Append(took, Head(poolTasks))
            /\ thr' = [thr EXCEPT ![t] = "task"]
       ELSE /\ thr' = [thr EXCEPT ![t] = IF isClosed THEN "exit" ELSE "wait"]
            /\ UNCHANGED <<thrTask, poolTasks, took>>
    /\ UNCHANGED <<isClosed, added, ran, notPoolVars,
                   dtor>>
ThreadLoop(t) ==
    /\ thr[t] = "locked"
    /\ dtor # "freed"
    /\ IF poolTasks # <<>>
       THEN /\ thrTask' = [thrTask EXCEPT ![t] = Head(poolTasks)]
            /\ poolTasks' = Tail(poolTasks)
            /\ took' = Append(took, Head(poolTasks))
            /\ thr' = [thr EXCEPT ![t] = "task"]
       ELSE /\ thr' = [thr EXCEPT ![t] = IF isClosed THEN "exit" ELSE "wait"]
            /\ UNCHANGED <<thrTask, poolTasks, took>>
    /\ UNCHANGED <<isClosed, added, ran, notPoolVars,
                   dtor>>

\* task(), outside the mutex, then locker.lock()
ThreadTask(t) ==
    /\ thr[t] = "task"
    /\ ran' = [ran EXCEPT ![thrTask[t]] = @ + 1]
    /\ thr' = [thr EXCEPT ![t] = "locked"]
    /\ UNCHANGED <<poolTasks, isClosed, added, thrTask, took, notPoolVars,
                   dtor>>

\* cond_.wait(locker) may return without a notify
SpuriousWake(t) ==
    /\ thr[t] = "wait"
    /\ dtor # "freed"
    /\ thr' = [thr EXCEPT ![t] = "locked"]
    /\ UNCHANGED <<poolTasks, isClosed, added, thrTask, took, ran, notPoolVars, dtor>>

\* ThreadPool::ThreadPool(threadCount): the threads are started, no task yet
PoolInit ==
    /\ ServerOff
    /\ HttpIdle
    /\ LogIdle
    /\ BootIdle
    /\ IovIdle
    /\ ListenIdle
    /\ BuffIdle
    /\ TimerIdle
    /\ QueueIdle
    /\ poolTasks = <<>>
    /\ isClosed = FALSE
    /\ added = 0
    /\ thr = [t \in PoolThreads |-> "locked"]
    /\ thrTask = [t \in PoolThreads |-> 0]
    /\ took = <<>>
    /\ ran = [k \in PoolTaskIds |-> 0]
    /\ dtor = "none"

PoolNext ==
    \/ AddTask
    \/ \E t \in PoolThreads : ThreadLoop(t)
    \/ \E t \in PoolThreads : ThreadTask(t)
    \/ \E t \in PoolThreads : SpuriousWake(t)

SpecPool == PoolInit /\ [][PoolNext]_vars

\* the pool while it is alive: every thread that can make a turn of its loop
\* or finish its task does so
LivePool ==
    /\ SpecPool
    /\ \A t \in PoolThreads : WF_vars(ThreadLoop(t)) /\ WF_vars(ThreadTask(t))

(* ------------------------- ThreadPool destroyed -------------------------- *)
\* ThreadPool::~ThreadPool, its body: isClosed = true under the mutex
DtorClose ==
    /\ dtor = "none"
    /\ isClosed' = TRUE
    /\ dtor' = "closed"
    /\ UNCHANGED <<poolTasks, added, thr, thrTask, took, ran, notPoolVars>>

\* ThreadPool::~ThreadPool, its body: cond_.notify_all() after the unlock
DtorNotify ==
    /\ dtor = "closed"
    /\ thr' = [t \in PoolThreads |-> IF thr[t] = "wait" THEN "locked" ELSE thr[t]]
    /\ dtor' = "notified"
    /\ UNCHANGED <<poolTasks, isClosed, added, thrTask, took, ran, notPoolVars>>

\* ThreadPool::~ThreadPool, after its body: the member pool_ is destroyed. The
\* worker lambdas captured `this`, not a copy of pool_, so this was the last
\* reference: the Pool is deleted, and with it the queue and the tasks in it.
DtorFree ==
    /\ dtor = "notified"
    /\ poolTasks' = <<>>
    /\ dtor' = "freed"
    /\ UNCHANGED <<isClosed, added, thr, thrTask, took, ran, notPoolVars>>

\* what a worker's use of this->pool_ after the Pool was deleted can do: stop
\* the thread, or find the closed flag and an empty queue in the freed memory
DanglingUses == {"crash", "exit"}
\* a worker's next turn of the loop (or its locker.lock()) after DtorFree
ThreadDangling(t) ==
    /\ thr[t] \in {"locked", "wait"}
    /\ dtor = "freed"
    /\ \E use \in DanglingUses : thr' = [thr EXCEPT ![t] = use]
    /\ UNCHANGED <<poolTasks, isClosed, added, thrTask, took, ran, dtor, notPoolVars>>

PoolDownNext ==
    \/ PoolNext
    \/ DtorClose
    \/ DtorNotify
    \/ DtorFree
    \/ \E t \in PoolThreads : ThreadDangling(t)

SpecPoolDown == PoolInit /\ [][PoolDownNext]_vars

\* the worker threads and the destroying thread all keep running
LivePoolDown ==
    /\ SpecPoolDown
    /\ \A t \in PoolThreads :
        WF_vars(ThreadLoop(t)) /\ WF_vars(ThreadTask(t)) /\ WF_vars(ThreadDangling(t))
    /\ WF_vars(DtorNotify)
    /\ WF_vars(DtorFree)

(* ============================ BlockQueue alone ========================== *)
\* condConsumer_.notify_one(): one consumer waiting on it, if any, is woken and
\* contends for the mutex again; a consumer in pop(item, timeout) then first
\* tests isClose_
WakeConsumer(c) ==
    [cons EXCEPT ![c] = IF cons[c] = "wait" THEN "lock" ELSE "wokeT"]
NotifyConsumer ==
    IF \E c \in Consumers : cons[c] \in {"wait", "waitT"}
    THEN \E c \in Consumers : cons[c] \in {"wait", "waitT"} /\ cons' = WakeConsumer(c)
    ELSE cons' = cons
\* condProducer_.notify_one()
NotifyProducer ==
    IF \E p \in Producers : prod[p] = "wait"
    THEN \E p \in Producers : prod[p] = "wait" /\ prod' = [prod EXCEPT ![p] = "lock"]
    ELSE prod' = prod

\* a thread calls push_back: it takes the mutex next
PushCall(p) ==
    /\ prod[p] = "idle"
    /\ stored + Cardinality({r \in Producers : prod[r] # "idle"}) < MaxPushes
    /\ prod' = [prod EXCEPT ![p] = "lock"]
    /\ UNCHANGED <<deq_, bqClose, cons, stored, popped, closer, notQueueVars>>

\* BlockQueue::push_back with the mutex held: wait on condProducer_ while the
\* deque holds capacity_ items, else store the item and notify one consumer.
\* The items are numbered in the order they are stored.
PushBack_NoWait(p) ==
    /\ prod[p] = "lock"
    /\ deq_' = Append(deq_, stored + 1)
    /\ stored' = stored + 1
    /\ prod' = [prod EXCEPT ![p] = "idle"]
    /\ NotifyConsumer
    /\ UNCHANGED <<bqClose, popped, closer, notQueueVars>>
PushBack(p) ==
    /\ prod[p] = "lock"
    /\ IF Len(deq_) >= capacity_
       THEN /\ prod' = [prod EXCEPT ![p] = "wait"]
            /\ UNCHANGED <<deq_, stored, cons>>
       ELSE /\ deq_' = Append(deq_, stored + 1)
            /\ stored' = stored + 1
            /\ prod' = [prod EXCEPT ![p] = "idle"]
            /\ NotifyConsumer
    /\ UNCHANGED <<bqClose, popped, closer, notQueueVars>>

\* condition_variable::wait may return without a notify
ProducerSpurious(p) ==
    /\ prod[p] = "wait"
    /\ prod' = [prod EXCEPT ![p] = "lock"]
    /\ UNCHANGED <<deq_, bqClose, cons, stored, popped, closer, notQueueVars>>

\* a thread calls pop(item) or pop(item, timeout): it takes the mutex next
PopCall(c) ==
    /\ cons[c] \in {"idle", "true", "false"}
    /\ \E to \in {"lock", "lockT"} : cons' = [cons EXCEPT ![c] = to]
    /\ UNCHANGED <<deq_, bqClose, prod, stored, popped, closer, notQueueVars>>

\* pop takes the front item, notifies one producer and returns true
TakeFront(c) ==
    /\ deq_' = Tail(deq_)
    /\ popped' = Append(popped, Head(deq_))
    /\ cons' = [cons EXCEPT ![c] = "true"]
    /\ NotifyProducer

\* BlockQueue::pop(T&) with the mutex held: wait on condConsumer_ while the deque
\* is empty (isClose_ is not read), else take the front item
Pop(c) ==
    /\ cons[c] = "lock"
    /\ IF deq_ = <<>>
       THEN /\ cons' = [cons EXCEPT ![c] = "wait"]
            /\ UNCHANGED <<deq_, popped, prod>>
       ELSE TakeFront(c)
    /\ UNCHANGED <<bqClose, stored, closer, notQueueVars>>

\* BlockQueue::pop(T&, int timeout) with the mutex held: at the loop test, or
\* back from wait_for without a timeout, where isClose_ is tested first
PopTimed(c) ==
    /\ cons[c] \in {"lockT", "wokeT"}
    /\ IF cons[c] = "wokeT" /\ bqClose
       THEN /\ cons' = [cons EXCEPT ![c] = "false"]
            /\ UNCHANGED <<deq_, popped, prod>>
       ELSE IF deq_ = <<>>
            THEN /\ cons' = [cons EXCEPT ![c] = "waitT"]
                 /\ UNCHANGED <<deq_, popped, prod>>
            ELSE TakeFront(c)
    /\ UNCHANGED <<bqClose, stored, closer, notQueueVars>>

\* wait_for returns cv_status::timeout: pop returns false
PopTimeout(c) ==
    /\ cons[c] = "waitT"
    /\ cons' = [cons EXCEPT ![c] = "false"]
    /\ UNCHANGED <<deq_, bqClose, prod, stored, popped, closer, notQueueVars>>

ConsumerSpurious(c) ==
    /\ cons[c] \in {"wait", "waitT"}
    /\ cons' = WakeConsumer(c)
    /\ UNCHANGED <<deq_, bqClose, prod, stored, popped, closer, notQueueVars>>

\* BlockQueue::Close: clear(), which empties the deque under the mutex
CloseClear ==
    /\ closer = "none"
    /\ deq_' = <<>>
    /\ closer' = "cleared"
    /\ UNCHANGED <<bqClose, prod, cons, stored, popped, notQueueVars>>

\* BlockQueue::Close: isClose_ = true, then notify_all on both conditions
CloseNotify ==
    /\ closer = "cleared"
    /\ bqClose' = TRUE
    /\ cons' = [c \in Consumers |-> IF cons[c] \in {"wait", "waitT"}
                                    THEN WakeConsumer(c)[c] ELSE cons[c]]
    /\ prod' = [p \in Producers |-> IF prod[p] = "wait" THEN "lock" ELSE prod[p]]
    /\ closer' = "done"
    /\ UNCHANGED <<deq_, stored, popped, notQueueVars>>

\* BlockQueue::BlockQueue(maxsize): open and empty, no thread inside a call
QueueInit ==
    /\ ServerOff
    /\ HttpIdle
    /\ LogIdle
    /\ BootIdle
    /\ IovIdle
    /\ ListenIdle
    /\ BuffIdle
    /\ TimerIdle
    /\ PoolIdle
    /\ deq_ = <<>>
    /\ bqClose = FALSE
    /\ prod = [p \in Producers |-> "idle"]
    /\ cons = [c \in Consumers |-> "idle"]
    /\ stored = 0
    /\ popped = <<>>
    /\ closer = "none"

\* the queue while it is open
QueueNext ==
    \/ \E p \in Producers : PushCall(p)
    \/ \E p \in Producers : PushBack(p)
    \/ \E p \in Producers : ProducerSpurious(p)
    \/ \E c \in Consumers : PopCall(c)
    \/ \E c \in Consumers : Pop(c)
    \/ \E c \in Consumers : PopTimed(c)
    \/ \E c \in Consumers : PopTimeout(c)
    \/ \E c \in Consumers : ConsumerSpurious(c)

SpecQueue == QueueInit /\ [][QueueNext]_vars

QueueCloseNext ==
    \/ QueueNext
    \/ CloseClear
    \/ CloseNotify

SpecQueueClose == QueueInit /\ [][QueueCloseNext]_vars

\* every thread inside a call keeps running, Close runs to its end, and a
\* wait_for times out in the end
LiveQueueClose ==
    /\ SpecQueueClose
    /\ \A p \in Producers : WF_vars(PushBack(p))
    /\ \A c \in Consumers : WF_vars(Pop(c)) /\ WF_vars(PopTimed(c)) /\ WF_vars(PopTimeout(c))
    /\ WF_vars(CloseNotify)

(* --------------------------------- Log ---------------------------------- *)
\* A line of the log: id numbers the lines in the order write numbered them,
\* k is the value of lineCount_ the line was counted as.
Line(id, k) == [id |-> id, k |-> k]
\* deque_->flush(), push_back's notify_one: wake the writer thread if it waits
WakeWriter == IF wr = "wait" THEN "lock" ELSE wr
\* Log::init with the queue made again on every call, instead of only once
LogInit_Always(maxQueueSize) ==
    /\ ldtor = "none"
    /\ \A p \in LogWriters : lw[p] \in {"off", "idle"}
    /\ isAsync_' = (maxQueueSize > 0)
    /\ IF maxQueueSize > 0
       THEN /\ made' = made + 1
            /\ made < MaxLines
            /\ deq_' = <<>>
            /\ wr' = "lock"
       ELSE /\ made' = made
            /\ deq_' = deq_
            /\ wr' = wr
    /\ lineCount_' = 0
    /\ fp_' = 0
    /\ lw' = [p \in LogWriters |-> "idle"]
    /\ UNCHANGED <<files, accepted, lwFile, wrLine, ldtor, bqClose, notLogVars>>
\* Log::init: the mode, the queue and the writer thread on the first
\* asynchronous call, the line count, and the file of the day opened to append
LogInit(maxQueueSize) ==
    /\ ldtor = "none"
    /\ \A p \in LogWriters : lw[p] \in {"off", "idle"}
    /\ isAsync_' = (maxQueueSize > 0)
    /\ IF maxQueueSize > 0 /\ made = 0
       THEN /\ made' = 1
            /\ deq_' = <<>>
            /\ wr' = "lock"
       ELSE /\ made' = made
            /\ deq_' = deq_
            /\ wr' = IF fp_ # NoFile /\ maxQueueSize > 0 THEN WakeWriter ELSE wr
    /\ lineCount_' = 0
    /\ fp_' = 0
    /\ lw' = [p \in LogWriters |-> "idle"]
    /\ UNCHANGED <<files, accepted, lwFile, wrLine, ldtor, bqClose, notLogVars>>
\* Log::write, the test for a new file, made before any lock is taken
WriteCheck(p) ==
    /\ lw[p] = "idle"
    /\ ldtor = "none"
    /\ accepted + Cardinality({q \in LogWriters : lw[q] # "idle"}) < MaxLines
    /\ lw' = [lw EXCEPT ![p] = IF lineCount_ # 0 /\ lineCount_ % MAX_LINES = 0
                               THEN "name" ELSE "append"]
    /\ UNCHANGED <<isAsync_, made, lineCount_, fp_, files, accepted, lwFile, wr, wrLine,
                   ldtor, deq_, bqClose, notLogVars>>
\* Log::write, the name of the new file, from lineCount_ read without the lock
WriteName(p) ==
    /\ lw[p] = "name"
    /\ lwFile' = [lwFile EXCEPT ![p] = lineCount_ \div MAX_LINES]
    /\ lw' = [lw EXCEPT ![p] = "reopen"]
    /\ UNCHANGED <<isAsync_, made, lineCount_, fp_, files, accepted, wr, wrLine, ldtor,
                   deq_, bqClose, notLogVars>>
\* Log::write, under mtx_: flush, close the file and open the new one
WriteReopen(p) ==
    /\ lw[p] = "reopen"
    /\ fp_' = lwFile[p]
    /\ wr' = IF isAsync_ THEN WakeWriter ELSE wr
    /\ lw' = [lw EXCEPT ![p] = "append"]
    /\ UNCHANGED <<isAsync_, made, lineCount_, files, accepted, lwFile, wrLine, ldtor,
                   deq_, bqClose, notLogVars>>
\* Log::write, under mtx_: count the line, then queue it if the logger is
\* asynchronous and the queue is not full, else put it into the file
WriteAppend(p) ==
    /\ lw[p] = "append"
    /\ lineCount_' = lineCount_ + 1
    /\ accepted' = accepted + 1
    /\ IF isAsync_ /\ made > 0 /\ Len(deq_) < capacity_
       THEN /\ deq_' = Append(deq_, Line(accepted + 1, lineCount_ + 1))
            /\ wr' = WakeWriter
            /\ files' = files
       ELSE /\ files' = [files EXCEPT ![fp_] = Append(@, Line(accepted + 1, lineCount_ + 1))]
            /\ deq_' = deq_
            /\ wr' = wr
    /\ lw' = [lw EXCEPT ![p] = "idle"]
    /\ UNCHANGED <<isAsync_, made, fp_, lwFile, wrLine, ldtor, bqClose, notLogVars>>
\* AsyncWrite_, deque_->pop(str): wait while the deque is empty, else take
\* its front; no path of pop(T&) returns false
WriterPop ==
    /\ wr = "lock"
    /\ IF deq_ = <<>>
       THEN /\ wr' = "wait"
            /\ UNCHANGED <<deq_, wrLine>>
       ELSE /\ wr' = "have"
            /\ wrLine' = Head(deq_)
            /\ deq_' = Tail(deq_)
    /\ UNCHANGED <<isAsync_, made, lineCount_, fp_, files, accepted, lw, lwFile, ldtor,
                   bqClose, notLogVars>>
\* AsyncWrite_, under mtx_: fputs(str.c_str(), fp_)
WriterPut ==
    /\ wr = "have"
    /\ files' = [files EXCEPT ![fp_] = Append(@, wrLine)]
    /\ wr' = "lock"
    /\ UNCHANGED <<isAsync_, made, lineCount_, fp_, accepted, lw, lwFile, wrLine, ldtor,
                   deq_, bqClose, notLogVars>>
\* condConsumer_.wait may return without a notification
WriterSpurious ==
    /\ wr = "wait"
    /\ wr' = "lock"
    /\ UNCHANGED <<isAsync_, made, lineCount_, fp_, files, accepted, lw, lwFile, wrLine,
                   ldtor, deq_, bqClose, notLogVars>>
\* a null deque_ dereferenced: the build crashes, or runs on past it
NullUses == {"crashed", "closed"}
\* Log::~Log starts, with no thread inside write; a logger that never got a
\* queue dereferences the null deque_ at once
LogDtor ==
    /\ ldtor = "none"
    /\ fp_ # NoFile
    /\ \A p \in LogWriters : lw[p] = "idle"
    /\ IF made > 0
       THEN /\ ldtor' = "drain"
            /\ fp_' = fp_
       ELSE \E u \in NullUses :
                /\ ldtor' = u
                /\ fp_' = IF u = "closed" THEN NoFile ELSE fp_
    /\ UNCHANGED <<isAsync_, made, lineCount_, files, accepted, lw, lwFile, wr, wrLine,
                   deq_, bqClose, notLogVars>>
\* Log::~Log, while(!deque_->empty()) deque_->flush()
LogDtorFlush ==
    /\ ldtor = "drain"
    /\ deq_ # <<>>
    /\ wr' = WakeWriter
    /\ UNCHANGED <<isAsync_, made, lineCount_, fp_, files, accepted, lw, lwFile, wrLine,
                   ldtor, deq_, bqClose, notLogVars>>
\* Log::~Log, deque_->Close() once the deque is empty; then
\* writeThread_->join(), which returns when AsyncWrite_ has left its loop, that
\* is when pop has returned false
LogDtorClose ==
    /\ ldtor = "drain"
    /\ deq_ = <<>>
    /\ bqClose' = TRUE
    /\ wr' = WakeWriter
    /\ ldtor' = "join"
    /\ UNCHANGED <<isAsync_, made, lineCount_, fp_, files, accepted, lw, lwFile, wrLine,
                   deq_, notLogVars>>
\* SpecLog: the logger after its first init, synchronous or asynchronous, with
\* no line written yet or two lines short of a full file
LogInitModes == {0, 1}
LogStart == {0, MAX_LINES - 2}
LogSpecInit ==
    /\ ServerOff
    /\ HttpIdle
    /\ TimerIdle
    /\ PoolIdle
    /\ QueueIdle
    /\ BootIdle
    /\ IovIdle
    /\ ListenIdle
    /\ BuffIdle
    /\ \E q \in LogInitModes, n \in LogStart :
        /\ isAsync_ = (q > 0)
        /\ made = (IF q > 0 THEN 1 ELSE 0)
        /\ wr = (IF q > 0 THEN "lock" ELSE "none")
        /\ lineCount_ = n
    /\ fp_ = 0
    /\ files = [f \in FileIds |-> <<>>]
    /\ accepted = 0
    /\ lw = [p \in LogWriters |-> "idle"]
    /\ lwFile = [p \in LogWriters |-> 0]
    /\ wrLine = 0
    /\ ldtor = "none"
LogNext ==
    \/ \E q \in LogInitModes : LogInit(q)
    \/ \E p \in LogWriters : WriteCheck(p) \/ WriteName(p) \/ WriteReopen(p) \/ WriteAppend(p)
    \/ WriterPop
    \/ WriterPut
    \/ WriterSpurious
    \/ LogDtor
    \/ LogDtorFlush
    \/ LogDtorClose
SpecLog == LogSpecInit /\ [][LogNext]_vars
\* every thread in write goes on, the writer thread runs, the destructor
\* goes on
LiveLog ==
    /\ SpecLog
    /\ \A p \in LogWriters : WF_vars(WriteName(p)) /\ WF_vars(WriteReopen(p)) /\ WF_vars(WriteAppend(p))
    /\ WF_vars(WriterPop)
    /\ WF_vars(WriterPut)
    /\ WF_vars(LogDtorFlush)
    /\ WF_vars(LogDtorClose)

(* ----------------------- construction and Start ------------------------ *)
\* InitEventMode_ with the cases 1 and 2 taken for each other
EventMode_Swapped(mode) ==
    LET listen == {"EPOLLRDHUP"}
        conn == {"EPOLLONESHOT", "EPOLLRDHUP"}
    IN  CASE mode = 0 -> [listenEvent_ |-> listen, connEvent_ |-> conn]
          [] mode = 2 -> [listenEvent_ |-> listen, connEvent_ |-> conn \cup {"EPOLLET"}]
          [] mode = 1 -> [listenEvent_ |-> listen \cup {"EPOLLET"}, connEvent_ |-> conn]
          [] mode = 3 -> [listenEvent_ |-> listen \cup {"EPOLLET"},
                          connEvent_ |-> conn \cup {"EPOLLET"}]
          [] OTHER -> [listenEvent_ |-> listen \cup {"EPOLLET"},
                       connEvent_ |-> conn \cup {"EPOLLET"}]
\* InitEventMode_: the two masks, as sets of flags (| is the union)
EventMode(mode) ==
    LET listen == {"EPOLLRDHUP"}
        conn == {"EPOLLONESHOT", "EPOLLRDHUP"}
    IN  CASE mode = 0 -> [listenEvent_ |-> listen, connEvent_ |-> conn]
          [] mode = 1 -> [listenEvent_ |-> listen, connEvent_ |-> conn \cup {"EPOLLET"}]
          [] mode = 2 -> [listenEvent_ |-> listen \cup {"EPOLLET"}, connEvent_ |-> conn]
          [] mode = 3 -> [listenEvent_ |-> listen \cup {"EPOLLET"},
                          connEvent_ |-> conn \cup {"EPOLLET"}]
          [] OTHER -> [listenEvent_ |-> listen \cup {"EPOLLET"},
                       connEvent_ |-> conn \cup {"EPOLLET"}]
\* the constructor calls InitEventMode_(trigMode)
InitEventMode_ ==
    /\ boot = "ctor"
    /\ listenEvent_' = EventMode(trigMode).listenEvent_
    /\ connEvent_' = EventMode(trigMode).connEvent_
    /\ boot' = "socket"
    /\ UNCHANGED <<srvClose, regs, srvVars, notBootVars>>
\* the calls of InitSocket_ that can fail, and success
SocketResults == {"socket", "setsockopt", "bind", "listen", "AddFd", "ok"}
\* InitSocket_ returning true whatever failed
InitSocket__Open ==
    /\ boot = "socket"
    /\ \E r \in SocketResults :
        /\ regs' = IF r = "ok" THEN [regs EXCEPT ![0] = listenEvent_ \cup {"EPOLLIN"}]
                   ELSE regs
        /\ srvClose' = FALSE
    /\ boot' = "built"
    /\ UNCHANGED <<listenEvent_, connEvent_, srvVars, notBootVars>>
\* the constructor's `if(!InitSocket_()) { isClose_ = true; }`: the listener
\* is registered with listenEvent_ | EPOLLIN unless a call before failed
InitSocket_ ==
    /\ boot = "socket"
    /\ \E r \in SocketResults :
        /\ regs' = IF r = "ok" THEN [regs EXCEPT ![0] = listenEvent_ \cup {"EPOLLIN"}]
                   ELSE regs
        /\ srvClose' = (r # "ok")
    /\ boot' = "built"
    /\ UNCHANGED <<listenEvent_, connEvent_, srvVars, notBootVars>>
\* WebServer::Start: while(!isClose_) is entered, or Start returns at once
Start ==
    /\ boot = "built"
    /\ IF srvClose
       THEN /\ boot' = "returned"
            /\ UNCHANGED <<rpc, wpc>>
       ELSE /\ boot' = "loop"
            /\ rpc' = "loop"
            /\ wpc' = [w \in Workers |-> "idle"]
    /\ UNCHANGED <<trigMode, users, isClose, mmFile, toWrite, keepAlive, rdable, userCount,
                   sock, ep, timer, rfd, tasks, wfd, accepts, busy, listenEvent_,
                   connEvent_, srvClose, regs, notBootVars>>
\* the member initialisers of WebServer::WebServer have run: isClose_(false)
BootInit ==
    /\ trigMode \in 0..3
    /\ ServerDown
    /\ HttpIdle
    /\ TimerIdle
    /\ PoolIdle
    /\ QueueIdle
    /\ LogIdle
    /\ IovIdle
    /\ ListenIdle
    /\ BuffIdle
    /\ listenEvent_ = {}
    /\ connEvent_ = {}
    /\ srvClose = FALSE
    /\ boot = "ctor"
    /\ regs = [fd \in RegFds |-> {}]
BootNext ==
    \/ InitEventMode_
    \/ InitSocket_
    \/ Start
    \/ Next
SpecBoot == BootInit /\ [][BootNext]_vars

\* The masks the client descriptors are registered with, call by call.
\* AddClient_: epoller_->AddFd(fd, EPOLLIN | connEvent_)
RegAddClient(fd) ==
    /\ boot = "built"
    /\ ~srvClose
    /\ regs[fd] = {}
    /\ regs' = [regs EXCEPT ![fd] = {"EPOLLIN"} \cup connEvent_]
    /\ UNCHANGED <<listenEvent_, connEvent_, srvClose, boot, srvVars, notBootVars>>
\* OnProcess: ModFd(fd, connEvent_ | EPOLLOUT) if process() made a response,
\* else ModFd(fd, connEvent_ | EPOLLIN)
RegOnProcess(fd) ==
    /\ boot = "built"
    /\ regs[fd] # {}
    /\ \E ok \in BOOLEAN :
        regs' = [regs EXCEPT ![fd] = connEvent_ \cup (IF ok THEN {"EPOLLOUT"} ELSE {"EPOLLIN"})]
    /\ UNCHANGED <<listenEvent_, connEvent_, srvClose, boot, srvVars, notBootVars>>
\* OnWrite_: ModFd(fd, connEvent_ | EPOLLIN) after a whole keep-alive response,
\* ModFd(fd, connEvent_ | EPOLLOUT) on EAGAIN, else CloseConn_ and its DelFd
RegOnWrite(fd) ==
    /\ boot = "built"
    /\ "EPOLLOUT" \in regs[fd]
    /\ \E r \in {"done", "eagain", "close"} :
        regs' = [regs EXCEPT ![fd] = CASE r = "done" -> connEvent_ \cup {"EPOLLIN"}
                                       [] r = "eagain" -> connEvent_ \cup {"EPOLLOUT"}
                                       [] OTHER -> {}]
    /\ UNCHANGED <<listenEvent_, connEvent_, srvClose, boot, srvVars, notBootVars>>
\* the constructor with any trigMode argument
ModeInit ==
    /\ trigMode \in 0..MaxTrigMode
    /\ ServerDown
    /\ HttpIdle
    /\ TimerIdle
    /\ PoolIdle
    /\ QueueIdle
    /\ LogIdle
    /\ IovIdle
    /\ ListenIdle
    /\ BuffIdle
    /\ listenEvent_ = {}
    /\ connEvent_ = {}
    /\ srvClose = FALSE
    /\ boot = "ctor"
    /\ regs = [fd \in RegFds |-> {}]
ModeNext ==
    \/ InitEventMode_
    \/ InitSocket_
    \/ \E fd \in RegFds \ {0} : RegAddClient(fd) \/ RegOnProcess(fd) \/ RegOnWrite(fd)
SpecMode == ModeInit /\ [][ModeNext]_vars

(* ------------------ one HttpConn: mapping and iovec -------------------- *)
\* HttpConn::ToWriteBytes: both lengths, whatever iovCnt_ is
ToWriteBytes == iov0.len + iov1.len
\* what writev can take: the first iovCnt_ entries of iov_
Writable == iov0.len + (IF iovCnt_ = 2 THEN iov1.len ELSE 0)
\* HttpResponse::UnmapFile on the mappings: munmap(mmFile_, ...) if mmFile_
UnmapFile(ms, mm) ==
    IF mm # NoMap THEN [ms EXCEPT ![mm].unmaps = @ + 1] ELSE ms
\* HttpConn::init: the buffers are emptied; iov_ and response_ are not touched
ConnInit ==
    /\ cst = "closed"
    /\ cst' = "read"
    /\ wbuf' = 0
    /\ UNCHANGED <<iov0, iov1, iovCnt_, mmFile_, maps, resp_, sent, wret, notIovVars>>
\* what AddContent_ does with the file: "file" maps it, "minus1" maps a file
\* whose first four bytes are 0xFF and takes *mmRet == -1 for a failure,
\* "inline" could not open it (ErrorContent puts a body into the buffer)
ContentKinds == {"file", "minus1", "inline"}
\* OnProcess with a request in the read buffer. HttpConn::process:
\* response_.Init (which unmaps the file of the response before), MakeResponse,
\* then iov_[0] is the write buffer and, if a file is mapped, iov_[1] is the
\* file and iovCnt_ is 2. process returns true and the descriptor is armed for
\* EPOLLOUT. ka is request_.IsKeepAlive() of a request that parsed.
Process(kind, h, f, ka) ==
    /\ cst = "read"
    /\ kind # "inline" => Len(maps) < MaxMaps
    /\ LET unmapped == UnmapFile(maps, mmFile_)
           id == Len(maps) + 1
       IN  /\ maps' = IF kind = "inline" THEN unmapped
                      ELSE Append(unmapped, [len |-> f, unmaps |-> 0])
           /\ mmFile_' = IF kind = "file" THEN id ELSE NoMap
           /\ wbuf' = wbuf + h
           /\ iov0' = [off |-> 0, len |-> wbuf + h]
           /\ iov1' = IF kind = "file" THEN [map |-> id, off |-> 0, len |-> f] ELSE iov1
           /\ iovCnt_' = IF kind = "file" THEN 2 ELSE 1
           /\ resp_' = [H |-> wbuf + h, F |-> IF kind = "file" THEN f ELSE 0, ka |-> ka]
    /\ sent' = <<>>
    /\ cst' = "out"
    /\ UNCHANGED <<wret, notIovVars>>
\* the socket is writable: DealWrite_ hands OnWrite_ to a worker, which enters
\* HttpConn::write (len = -1)
OnWriteBegin ==
    /\ cst = "out"
    /\ cst' = "write"
    /\ wret' = "none"
    /\ UNCHANGED <<wbuf, iov0, iov1, iovCnt_, mmFile_, maps, resp_, sent, notIovVars>>
\* `while (isET || ToWriteBytes() > 10240)` after a turn of the loop
LoopAgain == isET \/ ToWriteBytes > WriteLoopBytes
\* HttpConn::write is about to call writev: on entry, and when the loop goes round
CallsWritev == cst = "write" /\ (wret = "none" \/ (wret = "pos" /\ LoopAgain))
\* HttpConn::write has returned: writev gave len <= 0, or the loop condition failed
Returned == cst = "write" /\ (wret \in {"zero", "eagain", "fatal"} \/ (wret = "pos" /\ ~LoopAgain))
\* the bytes writev takes when it returns n: the rest of the header, then the
\* file
Taken(n) ==
    LET nh == IF n > iov0.len THEN iov0.len ELSE n
    IN  [i \in 1..n |-> IF i <= nh THEN <<"h", iov0.off + i>>
                        ELSE <<"f", iov1.off + (i - nh)>>]
\* HttpConn::write, one turn of its loop with writev returning len > 0: if
\* more than iov_[0] went out, iov_[1] is advanced and the write buffer
\* emptied, else iov_[0] is advanced and the bytes are retrieved
Writev(len) ==
    /\ CallsWritev
    /\ len \in 1..Writable
    /\ sent' = sent \o Taken(len)
    /\ IF len > iov0.len
       THEN /\ iov1' = [iov1 EXCEPT !.off = @ + (len - iov0.len), !.len = @ - (len - iov0.len)]
            /\ iov0' = [iov0 EXCEPT !.len = 0]
            /\ wbuf' = IF iov0.len # 0 THEN 0 ELSE wbuf
       ELSE /\ iov0' = [off |-> iov0.off + len, len |-> iov0.len - len]
            /\ wbuf' = wbuf - len
            /\ iov1' = iov1
    /\ wret' = "pos"
    /\ UNCHANGED <<cst, iovCnt_, mmFile_, maps, resp_, notIovVars>>
\* HttpConn::write, writev returning len <= 0 and the loop left: 0 when the
\* iovec has no bytes, else -1 with EAGAIN (the socket buffer is full) or with
\* another error (EPIPE, ECONNRESET)
WritevFail(res) ==
    /\ CallsWritev
    /\ res \in (IF Writable = 0 THEN {"zero"} ELSE {"eagain", "fatal"})
    /\ wret' = res
    /\ UNCHANGED <<cst, wbuf, iov0, iov1, iovCnt_, mmFile_, maps, resp_, sent, notIovVars>>
\* OnWrite_ after write has returned, ToWriteBytes() == 0 and IsKeepAlive():
\* the descriptor is armed for EPOLLIN, for the next request
WriteDone ==
    /\ Returned
    /\ ToWriteBytes = 0 /\ resp_.ka
    /\ cst' = "read"
    /\ UNCHANGED <<wbuf, iov0, iov1, iovCnt_, mmFile_, maps, resp_, sent, wret, notIovVars>>
\* OnWrite_, ToWriteBytes() != 0, ret < 0 and EAGAIN: armed for EPOLLOUT again
WriteAgain ==
    /\ Returned
    /\ ToWriteBytes # 0 /\ wret = "eagain"
    /\ cst' = "out"
    /\ UNCHANGED <<wbuf, iov0, iov1, iovCnt_, mmFile_, maps, resp_, sent, wret, notIovVars>>
\* OnWrite_, every other case: CloseConn_(client)
WriteClose ==
    /\ Returned
    /\ ~(ToWriteBytes = 0 /\ resp_.ka)
    /\ ~(ToWriteBytes # 0 /\ wret = "eagain")
    /\ cst' = "closing"
    /\ UNCHANGED <<wbuf, iov0, iov1, iovCnt_, mmFile_, maps, resp_, sent, wret, notIovVars>>
\* HttpConn::Close: response_.UnmapFile(), isClose_ = true; from OnWrite_'s
\* CloseConn_, or from the idle timer or a hang-up while the connection waits
ConnClose ==
    /\ cst \in {"read", "out", "closing"}
    /\ maps' = UnmapFile(maps, mmFile_)
    /\ mmFile_' = NoMap
    /\ cst' = "closed"
    /\ UNCHANGED <<wbuf, iov0, iov1, iovCnt_, resp_, sent, wret, notIovVars>>
\* iov_ is not initialised by HttpConn::HttpConn: iov_[1].iov_len is whatever
\* the memory of the new map node held
GarbageLens == {0, MaxFile}
\* an entry of users_ just made: HttpConn::HttpConn, HttpResponse::HttpResponse
IovInit ==
    /\ trigMode \in {0, 1}
    /\ ServerDown
    /\ HttpIdle
    /\ TimerIdle
    /\ PoolIdle
    /\ QueueIdle
    /\ LogIdle
    /\ BootIdle
    /\ ListenIdle
    /\ BuffIdle
    /\ cst = "closed"
    /\ wbuf = 0
    /\ iov0 = [off |-> 0, len |-> 0]
    /\ \E g \in GarbageLens : iov1 = [map |-> NoMap, off |-> 0, len |-> g]
    /\ iovCnt_ = 0
    /\ mmFile_ = NoMap
    /\ maps = <<>>
    /\ resp_ = [H |-> 0, F |-> 0, ka |-> FALSE]
    /\ sent = <<>>
    /\ wret = "none"
IovNext ==
    \/ ConnInit
    \/ \E kind \in ContentKinds, h \in 1..MaxHdr, f \in 1..MaxFile, ka \in BOOLEAN :
            Process(kind, h, f, ka)
    \/ OnWriteBegin
    \/ \E len \in 1..(MaxHdr + MaxFile) : Writev(len)
    \/ \E res \in {"zero", "eagain", "fatal"} : WritevFail(res)
    \/ WriteDone
    \/ WriteAgain
    \/ WriteClose
    \/ ConnClose
SpecIov == IovInit /\ [][IovNext]_vars

(* ---------------------- Log::write and Log::buff_ ---------------------- *)
\* Buffer: EnsureWriteable(len) finds room. WritableBytes() is the unsigned
\* difference size - writePos_, which is huge once the cursor is past the end.
Fits(size, w, len) == w > size \/ size - w >= len
\* Buffer::Append(len) on the cursors: room is made if there is none (the
\* readable bytes are moved to the front, or the buffer is resized to at least
\* writePos_ + len), then the write cursor moves on by len
BuffAppend(len) ==
    /\ IF Fits(bufSize, writePos_, len)
       THEN /\ writePos_' = writePos_ + len
            /\ UNCHANGED <<readPos_, bufSize>>
       ELSE IF (bufSize - writePos_) + readPos_ >= len
       THEN /\ readPos_' = 0
            /\ writePos_' = (writePos_ - readPos_) + len
            /\ bufSize' = bufSize
       ELSE /\ \E extra \in {0, 1} : bufSize' = writePos_ + len + extra
            /\ writePos_' = writePos_ + len
            /\ readPos_' = readPos_
\* Buffer::HasWritten(len): the write cursor moves on by len, nothing is tested
HasWritten(len) ==
    /\ writePos_' = writePos_ + len
    /\ overrun' = (overrun \/ writePos_ > bufSize \/ len > bufSize - writePos_)
    /\ UNCHANGED <<readPos_, bufSize>>

\* Log::write under mtx_: n = snprintf(buff_.BeginWrite(), 128, time stamp),
\* buff_.HasWritten(n)
BuffStamp ==
    /\ bpc = "idle"
    /\ HasWritten(StampLen)
    /\ bpc' = "title"
    /\ UNCHANGED notBuffVars
\* AppendLogLevelTitle_: buff_.Append(title, 9)
BuffTitle ==
    /\ bpc = "title"
    /\ BuffAppend(TitleLen)
    /\ bpc' = "msg"
    /\ UNCHANGED <<overrun, notBuffVars>>
\* m = vsnprintf(buff_.BeginWrite(), buff_.WritableBytes(), format, vaList),
\* buff_.HasWritten(m): vsnprintf stores what fits and returns the length of
\* the whole message, len. Past the end of the buffer the process goes on with
\* the memory behind it overwritten, or faults.
BuffFormat(len) ==
    /\ bpc = "msg"
    /\ HasWritten(len)
    /\ bpc' \in (IF len > bufSize - writePos_ THEN {"end", "crashed"} ELSE {"end"})
    /\ UNCHANGED notBuffVars
\* buff_.Append("\n\0", 2)
BuffEnd ==
    /\ bpc = "end"
    /\ BuffAppend(EndLen)
    /\ bpc' = "take"
    /\ UNCHANGED <<overrun, notBuffVars>>
\* push_back(buff_.RetrieveAllToStr()) or fputs(buff_.Peek(), fp_), then
\* buff_.RetrieveAll(): both cursors go back to 0
BuffTake ==
    /\ bpc = "take"
    /\ readPos_' = 0
    /\ writePos_' = 0
    /\ bpc' = "idle"
    /\ UNCHANGED <<bufSize, overrun, notBuffVars>>

\* Log::Log: buff_ is empty
BuffInit ==
    /\ ServerOff
    /\ HttpIdle
    /\ TimerIdle
    /\ PoolIdle
    /\ QueueIdle
    /\ LogIdle
    /\ BootIdle
    /\ IovIdle
    /\ ListenIdle
    /\ bpc = "idle"
    /\ readPos_ = 0
    /\ writePos_ = 0
    /\ bufSize = StampLen + TitleLen + BuffSpare
    /\ overrun = FALSE

BuffNext ==
    \/ BuffStamp
    \/ BuffTitle
    \/ \E len \in 0..MaxMsg : BuffFormat(len)
    \/ BuffEnd
    \/ BuffTake

SpecLogBuff == BuffInit /\ [][BuffNext]_vars

(* ------------------------ DealListen_ by itself ------------------------- *)
\* the loop of WebServer::DealListen_ with pend connections waiting and uc =
\* HttpConn::userCount: accept returns a descriptor while one is waiting; the
\* loop returns when accept fails, or after SendError_ when userCount >= MAX_FD,
\* and goes round again only if listenEvent_ has EPOLLET. added counts the
\* AddClient_ calls, left the connections still waiting at the return.
RECURSIVE AcceptLoop(_, _, _)
AcceptLoop(et, pend, uc) ==
    IF pend = 0 THEN [added |-> 0, busy |-> FALSE, left |-> 0]
    ELSE IF uc >= MAX_FD THEN [added |-> 0, busy |-> TRUE, left |-> pend - 1]
    ELSE IF et
         THEN LET r == AcceptLoop(et, pend - 1, uc + 1)
              IN  [r EXCEPT !.added = r.added + 1]
         ELSE [added |-> 1, busy |-> FALSE, left |-> pend - 1]

\* a client connects: the kernel puts the connection in the accept queue
Arrive ==
    /\ backlog < MaxBacklog
    /\ backlog' = backlog + 1
    /\ UNCHANGED <<lTrig, lUsers, lAdded, lBusy, notListenVars>>

\* the listener is readable and Start calls DealListen_; every AddClient_ runs
\* HttpConn::init, which counts the connection in userCount
ListenDeal ==
    /\ backlog > 0
    /\ LET r == AcceptLoop(ListenET(lTrig), backlog, lUsers)
       IN  /\ backlog' = r.left
           /\ lUsers' = lUsers + r.added
           /\ lAdded' = r.added
           /\ lBusy' = r.busy
    /\ UNCHANGED <<lTrig, notListenVars>>

\* HttpConn::Close of some connection: userCount--
Leave ==
    /\ lUsers > MAX_FD - MaxBacklog
    /\ lUsers' = lUsers - 1
    /\ UNCHANGED <<lTrig, backlog, lAdded, lBusy, notListenVars>>

\* the server has run for a while: up to MAX_FD connections are open
ListenInit ==
    /\ ServerOff
    /\ HttpIdle
    /\ TimerIdle
    /\ PoolIdle
    /\ QueueIdle
    /\ LogIdle
    /\ BootIdle
    /\ IovIdle
    /\ BuffIdle
    /\ lTrig \in 0..MaxTrigMode
    /\ backlog = 0
    /\ lUsers \in (MAX_FD - MaxBacklog)..MAX_FD
    /\ lAdded = 0
    /\ lBusy = FALSE

ListenNext ==
    \/ Arrive
    \/ ListenDeal
    \/ Leave

SpecListen == ListenInit /\ [][ListenNext]_vars

(* ------------------------------ the claims ------------------------------ *)
\* tasks in the queue for connection fd
Queued(fd) == {i \in DOMAIN tasks : tasks[i][2] = fd}
\* workers running a task for connection fd
Running(fd) == {w \in Workers : wpc[w] # "idle" /\ wfd[w] = fd}
\* a thread is inside HttpConn::Close for fd, past the test of isClose_
Closing(fd) ==
    \/ rpc \in {"cb_close", "ev_close"} /\ rfd = fd
    \/ \E w \in Workers : wpc[w] = "CloseAct" /\ wfd[w] = fd
\* a step of the reactor thread (or of the clock): no worker moves, no task is taken
ReactorStep == wpc' = wpc /\ Len(tasks') >= Len(tasks)

\* C1: at any time at most one worker task (OnRead_/OnProcess or OnWrite_) is
\* queued or executing for a given connection.
C1_OneTaskPerConn ==
    \A fd \in FDs : Cardinality(Queued(fd)) + Cardinality(Running(fd)) <= 1

\* C2: while a task for a connection is queued or running, no step of the reactor
\* thread (hang-up handling, the timer callback, an accept) closes the
\* connection's socket, unmaps its file or re-initialises its slot.
C2_StableReference ==
    [][\A fd \in FDs :
        (Queued(fd) # {} \/ Running(fd) # {}) /\ ReactorStep
            => /\ sock'[fd] = sock[fd]
               /\ isClose'[fd] = isClose[fd]
               /\ mmFile'[fd] = mmFile[fd]]_vars

\* C3: under every interleaving of the close path the socket is closed once and
\* userCount counted down once, so userCount equals the number of connections
\* whose isClose_ is false and is never negative.
C3_UserCountExact ==
    /\ userCount = Cardinality({fd \in FDs : ~isClose[fd]})
    /\ userCount >= 0

\* a call of HttpConn::Close for fd (through CloseConn_), up to the test
CloseCall(fd) ==
    \/ TickFireOn(fd)
    \/ DealHup(fd)
    \/ \E w \in Workers : wfd[w] = fd /\ WorkerClose(w)
\* fd was closed by a call of Close that has returned
ClosedBefore(fd) == isClose[fd] /\ ~mmFile[fd] /\ ~Closing(fd)

\* C4: a call of HttpConn::Close for a connection that an earlier call, which has
\* returned, already closed returns at the test of isClose_ and changes neither
\* userCount nor the open flag nor the mapped file nor the socket.
C4_CloseIdempotent ==
    [][\A fd \in FDs :
        ClosedBefore(fd) /\ CloseCall(fd)
            => /\ UNCHANGED <<userCount, isClose, mmFile, sock>>
               /\ ~Closing(fd)']_vars
\* a worker stands at the call of Close for a connection that was closed before
C4_Witness ==
    \E w \in Workers : wpc[w] = "Close" /\ ClosedBefore(wfd[w]) /\ wfd[w] \in users

C7_IdleClosed ==
    \A fd \in FDs :
        (~isClose[fd] /\ timer[fd] \in 0..(timeoutMS - 1))
            ~> (isClose[fd] \/ timer[fd] = timeoutMS)
\* C7, second half: when every connection has been closed and no thread is
\* inside Close, userCount is back to the value it had before the accepts.
C7_CountRestored ==
    (\A fd \in FDs : isClose[fd] /\ ~Closing(fd)) => userCount = 0

\* C8, as the claim states it: when process finds only part of a request in the
\* read buffer (parse says more bytes are needed), no response is produced, the
\* parser keeps the state it reached, and the fd is re-armed for read.
C8_PartialWaits ==
    [][hpc = "process" /\ hbuf # <<>> /\ parse(RequestInit, hbuf).why = "more"
        => /\ hpc' = "read"
           /\ resp' = resp
           /\ hstate' = parse(RequestInit, hbuf).q.state]_vars
\* C9: whenever the parser rejects a request as malformed, the status line of
\* the response is 400, whatever srcDir + path names.
C9_MalformedIs400 ==
    (hres = "bad" /\ hpc = "write") => resp.code = 400

\* C10: after MakeResponse the status is 404 if the file is missing or a
\* directory, else 403 if it is not world-readable, else 200 if the initial code
\* was unset, else the initial code; the status line carries one of 200, 400,
\* 403, 404; and for 400, 403, 404 the path served is the matching error page.
C10_StatusFunction ==
    hpc = "made" =>
        LET st == FileStat(resp.reqPath) IN
        /\ (~st.exists \/ st.isDir) => resp.code = 404
        /\ (st.exists /\ ~st.isDir /\ ~st.roth) => resp.code = 403
        /\ (st.exists /\ ~st.isDir /\ st.roth) =>
                resp.code = (IF resp.initCode = -1 THEN 200 ELSE resp.initCode)
        /\ resp.code \in {200, 400, 403, 404}
        /\ resp.code = 400 => resp.path = "/400.html"
        /\ resp.code = 403 => resp.path = "/403.html"
        /\ resp.code = 404 => resp.path = "/404.html"
        /\ resp.code = 200 => resp.path = resp.reqPath
\* a directory asked for with code 200 has been answered 404 from the error page
C10_Witness ==
    /\ hpc = "made"
    /\ resp.initCode = 200
    /\ FileStat(resp.reqPath).isDir
    /\ resp.code = 404
    /\ resp.path = "/404.html"

\* the header lines of the response with the given name
HeaderCount(name) == Cardinality({i \in DOMAIN resp.headers : resp.headers[i] = name})

\* C11: every response MakeResponse has assembled has exactly one Connection,
\* one Content-type and one Content-length header, and the Content-length value
\* is the number of body bytes that follow: the mapped file's length, or the
\* inline error body's when open or mmap fails.
C11_HeadersAndLength ==
    (hpc \in {"made", "crashed"}) =>
        /\ HeaderCount("Connection") = 1
        /\ HeaderCount("Content-type") = 1
        /\ HeaderCount("Content-length") = 1
        /\ resp.contentLength = resp.bodyLen
        /\ resp.kind \in {"mapped", "inline"}

\* the connection of the task at the head of the queue
HeadFd == Head(tasks)[2]

\* C12: each OnWrite_ task ends in exactly one of three outcomes: nothing left
\* to write and the request keep-alive: the fd is re-armed for IN and the
\* connection stays open; bytes left after EAGAIN: the fd is re-armed for OUT
\* and the connection stays open; in every other case CloseConn_ is called.
C12_WriteOutcomes ==
    [][\A w \in Workers : OnWrite_(w) =>
        IF toWrite'[HeadFd] = 0 /\ keepAlive[HeadFd]
        THEN /\ ep'[HeadFd] = "IN"
             /\ ~isClose'[HeadFd] /\ sock'[HeadFd]
             /\ wpc'[w] = "idle"
        ELSE \/ /\ toWrite'[HeadFd] # 0
                /\ ep'[HeadFd] = "OUT"
                /\ ~isClose'[HeadFd] /\ sock'[HeadFd]
                /\ wpc'[w] = "idle"
             \/ wpc'[w] = "Close"]_vars

\* C13: a would-block result never closes a connection: after EAGAIN on read the
\* task goes on to process and the fd is re-armed; after EAGAIN on write with
\* bytes pending the fd is re-armed for OUT; any other failed read or failed
\* write goes to CloseConn_.
C13_WouldBlockRearms ==
    [][\A w \in Workers :
        /\ \A b \in BOOLEAN :
            /\ OnReadResult(w, <<b, "eagain">>) => wpc'[w] = "OnProcess"
            /\ OnReadResult(w, <<b, "fatal">>) => wpc'[w] = "Close"
        /\ OnProcess(w) =>
            /\ ep'[wfd[w]] \in {"IN", "OUT"}
            /\ ~isClose'[wfd[w]] /\ sock'[wfd[w]]
        /\ \A n \in {0, 1} :
            /\ OnWriteResult(w, <<n, "eagain">>) =>
                /\ ep'[HeadFd] = "OUT"
                /\ ~isClose'[HeadFd] /\ sock'[HeadFd]
                /\ wpc'[w] = "idle"
            /\ OnWriteResult(w, <<n, "fatal">>) => wpc'[w] = "Close"]_vars

C15_FullIsBusy ==
    /\ [](userCount <= MAX_FD)
    /\ [][DealListen_ =>
            /\ (userCount >= MAX_FD =>
                    /\ busy' = busy + 1
                    /\ UNCHANGED <<users, timer, ep, sock, isClose, userCount>>)
            /\ accepts' - accepts = (userCount' - userCount) + (busy' - busy)]_vars
C15_Witness == busy > 0 /\ userCount = MAX_FD /\ \E fd \in FDs : ~isClose[fd]


\* the nodes stored in a heap vector
Nodes(h) == {h[i] : i \in DOMAIN h}
IsMinHeap(h) == \A i \in 2..Len(h) : h[i].expires >= h[i \div 2].expires

\* C16: after any sequence of add, adjust, doWork, tick and pop the heap is a
\* binary min-heap on deadline: every node's deadline is at least its parent's.
C16_MinHeap == IsMinHeap(heap_)

\* C17: after any sequence of timer operations ref_ is the inverse of heap_:
\* ref_[heap_[i].id] = i for every index, ref_ has as many entries as heap_ has
\* nodes, and no id is in two nodes.
C17_RefInverse ==
    /\ \A i \in DOMAIN heap_ : ref_[heap_[i].id] = i - 1
    /\ Cardinality({id \in DOMAIN ref_ : ref_[id] # NoIdx}) = Len(heap_)
    /\ \A i, k \in DOMAIN heap_ : heap_[i].id = heap_[k].id => i = k

\* the nodes of h whose deadline is not later than nw
Due(h, nw) == {n \in Nodes(h) : n.expires <= nw}

\* C18: a call of tick at time now invokes, once each and in non-decreasing
\* deadline order, the callbacks of exactly the nodes whose deadline is <= now
\* and removes those nodes; afterwards the root, if any, is later than now.
C18_TickFiresDue ==
    [][CallTick =>
        /\ {fired'[i] : i \in DOMAIN fired'} = Due(heap_, now)
        /\ Len(fired') = Cardinality(Due(heap_, now))
        /\ \A i \in 2..Len(fired') : fired'[i - 1].expires <= fired'[i].expires
        /\ Nodes(heap_') = Nodes(heap_) \ Due(heap_, now)
        /\ (heap_' # <<>> => heap_'[1].expires > now)]_vars

\* C19: GetNextTick returns -1 exactly when the heap is empty after ticking, and
\* otherwise max(0, root deadline - now) in milliseconds, never a negative or
\* wrapped value.
C19_NextTickValue ==
    (top = "GetNextTick" /\ fault = "ok") =>
        /\ (ret = -1 <=> heap_ = <<>>)
        /\ (heap_ # <<>> =>
                ret = IF heap_[1].expires > now
                      THEN DurationMs(heap_[1].expires - now) ELSE 0)

\* the threads that hold task k
Holders(k) == {t \in PoolThreads : thr[t] = "task" /\ thrTask[t] = k}

\* C20: every task passed to AddTask is executed exactly once, by one worker
\* thread, and the tasks leave the queue in the order they were added, for more
\* tasks than threads as well.
C20_OnceInOrder ==
    /\ [](/\ took = [i \in 1..Len(took) |-> i]
          /\ poolTasks = [i \in 1..(added - Len(took)) |-> Len(took) + i]
          /\ \A k \in PoolTaskIds :
                /\ ran[k] + Cardinality(Holders(k)) = (IF k <= Len(took) THEN 1 ELSE 0))
    /\ \A k \in PoolTaskIds : (added >= k) ~> (ran[k] = 1)
C20_Witness ==
    /\ added = MaxTasks /\ MaxTasks > NumThreads
    /\ \A k \in PoolTaskIds : ran[k] = 1
    /\ \A t \in PoolThreads : thrTask[t] # 0

\* C21: no task is lost at pool shutdown: once the destructor has set closed,
\* every task that was added is still executed (those in the queue and those
\* in flight), and a worker leaves its loop only when the queue is empty.
C21_NoTaskLost ==
    /\ \A k \in PoolTaskIds : (isClosed /\ added >= k) ~> (ran[k] = 1)
    /\ [][\A t \in PoolThreads :
            (thr[t] # "exit" /\ thr'[t] = "exit") => Len(took) = added]_vars

\* C22: AddTask never waits for a worker or for queue space, and no wake-up is
\* lost: a queued task never coexists with every worker waiting, and under fair
\* scheduling every added task is eventually taken by a worker, whether it was
\* added while the workers were waiting or while all were busy.
C22_AddTaskNeverWaits ==
    /\ [](added < MaxTasks => ENABLED AddTask)
    /\ [](poolTasks # <<>> => \E t \in PoolThreads : thr[t] # "wait")
    /\ \A k \in PoolTaskIds : (added >= k) ~> (Len(took) >= k)
C22_Witness == poolTasks # <<>> /\ \A t \in PoolThreads : thr[t] = "task"

\* C23: on an open BlockQueue, for any interleaving of producers and
\* consumers, the deque never holds more than capacity_ items (push_back waits
\* while it is full), pop waits while it is empty, and the items are popped in
\* the order push_back stored them.
C23_BoundedFifo ==
    /\ [](Len(deq_) <= capacity_)
    /\ [](popped = [i \in 1..Len(popped) |-> i])
    /\ [][/\ \A p \in Producers :
                (prod[p] = "lock" /\ prod'[p] = "idle") => Len(deq_) < capacity_
          /\ \A c \in Consumers :
                (cons[c] \in {"lock", "lockT", "wokeT"} /\ cons'[c] = "true")
                    => (deq_ # <<>> /\ popped' = Append(popped, Head(deq_)))]_vars
C23_Witness ==
    /\ Len(deq_) = capacity_
    /\ \E p \in Producers : prod[p] = "wait"
    /\ popped # <<>>

\* a thread is inside pop, blocked or about to test the deque
InPop(c) == cons[c] \in {"lock", "wait", "lockT", "waitT", "wokeT"}

\* C24: once Close has been called, every producer blocked in push_back and
\* every consumer blocked in pop is unblocked, and every pop on the closed
\* queue, already waiting or called later, returns false instead of blocking.
C24_CloseUnblocks ==
    /\ \A p \in Producers : (closer = "done" /\ prod[p] = "wait") ~> (prod[p] = "idle")
    /\ \A c \in Consumers : (closer = "done" /\ InPop(c)) ~> (cons[c] = "false")

\* the ids of the lines a sequence of lines holds
LineIds(q) == {q[i].id : i \in DOMAIN q}
\* line id has been put into a log file
InFile(id) == \E f \in FileIds : id \in LineIds(files[f])
\* the places where line id is: the slots of the files, of the queue, and the
\* writer thread's hand
Places(id) ==
    UNION {{<<f, i>> : i \in {j \in DOMAIN files[f] : files[f][j].id = id}} : f \in FileIds}
        \cup ({<<"q", i>> : i \in {j \in DOMAIN deq_ : deq_[j].id = id}}
                \cup (IF wr = "have" /\ wrLine.id = id THEN {<<"w", 0>>} ELSE {}))

\* C25: once the destructor of an asynchronous logger has started, it comes to
\* its end: the queue is closed, the writer thread has been joined, the file is
\* closed, and every line queued before is in a file.
C25_ShutdownTerminates ==
    (ldtor = "drain") ~> (ldtor = "closed" /\ fp_ = NoFile /\ \A id \in 1..accepted : InFile(id))

\* C26: every line write has numbered is in exactly one place (a file, the
\* queue, the writer thread's hand) and comes to be in a file, whatever the
\* mode and however often init is called again; init makes at most one queue
\* and one writer thread.
C26_ExactlyOnce ==
    /\ [](\A id \in 1..accepted : Cardinality(Places(id)) = 1)
    /\ [](made <= 1)
    /\ \A id \in 1..MaxLines : (accepted >= id) ~> InFile(id)
\* lines were written directly and through the queue, init was called again
\* with the queue in place, and all of them are in the files
C26_Witness ==
    /\ accepted = MaxLines
    /\ \A id \in 1..accepted : InFile(id)
    /\ made = 1
    /\ ~isAsync_

\* C27: the line counted as k since init is in the file with rotation index
\* (k - 1) \div MAX_LINES.
C27_RotationIndex ==
    \A f \in FileIds : \A i \in DOMAIN files[f] : f = (files[f][i].k - 1) \div MAX_LINES

\* C28: for trigMode 0..3 the listener's mask has EPOLLET exactly for 2 and 3
\* and the connections' mask exactly for 1 and 3, which is HttpConn::isET;
\* every mask has EPOLLRDHUP, and every mask a client descriptor is registered
\* or re-armed with has EPOLLONESHOT.
C28_EventMasks ==
    /\ boot # "ctor" /\ trigMode \in 0..3 =>
        /\ ("EPOLLET" \in listenEvent_) = (trigMode \in {2, 3})
        /\ ("EPOLLET" \in connEvent_) = (trigMode \in {1, 3})
    /\ boot # "ctor" =>
        /\ ConnET(trigMode) = ("EPOLLET" \in connEvent_)
        /\ ListenET(trigMode) = ("EPOLLET" \in listenEvent_)
        /\ "EPOLLRDHUP" \in listenEvent_ \cap connEvent_
    /\ \A fd \in RegFds : regs[fd] # {} =>
        /\ "EPOLLRDHUP" \in regs[fd]
        /\ fd # 0 => "EPOLLONESHOT" \in regs[fd] /\ connEvent_ \subseteq regs[fd]
        /\ fd = 0 => regs[fd] = listenEvent_ \cup {"EPOLLIN"}
C28_Witness ==
    /\ trigMode = 1
    /\ regs[0] # {}
    /\ \E fd \in RegFds : "EPOLLOUT" \in regs[fd]
    /\ \E fd \in RegFds \ {0} : "EPOLLIN" \in regs[fd]

\* C29: a failure in InitSocket_ (socket, setsockopt, bind, listen, the
\* listener's AddFd) marks the server closed, and Start then returns without a
\* turn of the loop or an accept; once the loop runs, nothing that happens to a
\* connection marks the server closed or ends the loop.
C29_OnlyStartupIsFatal ==
    /\ [][boot = "socket" /\ regs'[0] = {} => srvClose']_vars
    /\ [][boot = "built" /\ srvClose => boot' \in {"built", "returned"}]_vars
    /\ [](srvClose => rpc = "off" /\ accepts = 0 /\ users = {} /\ tasks = <<>>)
    /\ [](boot = "loop" => ~srvClose /\ rpc # "off")
    /\ [][boot = "loop" => boot' = "loop"]_vars
C29_Witness ==
    /\ boot = "loop"
    /\ rpc = "loop"
    /\ \E w \in Workers : wpc[w] = "CloseAct"

\* C30: the timer is changed only by the reactor thread (add in AddClient_,
\* adjust in ExtentTime_, tick and the callbacks it runs) and by the passing of
\* time; no step of a worker task (OnRead_, OnProcess, OnWrite_, CloseConn_)
\* changes it, not even when it closes a connection whose node is in the heap.
C30_TimerOnReactorOnly ==
    /\ [][\A w \in Workers : Worker(w) => timer' = timer]_vars
    /\ [][timer' # timer => Reactor \/ TimePasses]_vars
    /\ [](rpc = "cb_close" => timer[rfd] # NoTimer)
C30_Witness ==
    \E w \in Workers : wpc[w] = "CloseAct" /\ timer[wfd[w]] # NoTimer /\ rpc = "loop"

\* the mappings that exist: mapped and not unmapped
LiveMaps == {i \in DOMAIN maps : maps[i].unmaps = 0}

\* C31: every mapping MakeResponse has made is unmapped once: none is unmapped
\* twice, none is left that mmFile_ does not point to (it could never be
\* unmapped), at most one is live, and none is unmapped while the open
\* connection's iovec still has bytes of it to write.
C31_UnmappedOnce ==
    /\ [](\A i \in DOMAIN maps : maps[i].unmaps <= 1)
    /\ [](LiveMaps \subseteq {mmFile_})
    /\ [](Cardinality(LiveMaps) <= 1)
    /\ [](cst \in {"out", "write"} /\ iovCnt_ = 2 /\ iov1.len > 0 => iov1.map \in LiveMaps)

\* the bytes of the response under way, in order: header, then file
Expected == [i \in 1..(resp_.H + resp_.F) |->
                IF i <= resp_.H THEN <<"h", i>> ELSE <<"f", i - resp_.H>>]

\* C32: the bytes writev has taken are the H header bytes followed by the F
\* file bytes, each once and in order; after each write ToWriteBytes is H + F
\* less the bytes written, and the write buffer holds the header bytes not yet
\* written.
C32_BytesInOrder ==
    /\ Len(sent) <= resp_.H + resp_.F
    /\ sent = SubSeq(Expected, 1, Len(sent))
    /\ cst \in {"out", "write"} /\ sent # <<>> =>
        /\ ToWriteBytes = resp_.H + resp_.F - Len(sent)
        /\ wbuf = (IF Len(sent) >= resp_.H THEN 0 ELSE resp_.H - Len(sent))

\* C33: every adjust the server performs (ExtentTime_) sets the deadline of one
\* node to now + timeoutMS_, no node's deadline becomes earlier than it was, and
\* after the sift-down that adjust does the heap is a min-heap again.
C33_AdjustOnlyLater ==
    [][SrvExtentTime =>
        /\ \A id \in Ids : ref_[id] # NoIdx =>
            /\ ref_'[id] # NoIdx
            /\ heap_'[ref_'[id] + 1].expires >= heap_[ref_[id] + 1].expires
        /\ \A n \in Nodes(heap_') \ Nodes(heap_) : n.expires = Deadline(now, timeoutMS)
        /\ Cardinality(Nodes(heap_') \ Nodes(heap_)) <= 1
        /\ IsMinHeap(heap_')]_vars
\* an adjust has put a later deadline on a node that has another node below or
\* beside it, and the root is earlier than the last node
C33_Witness ==
    /\ top = "adjust"
    /\ Len(heap_) >= 2
    /\ heap_[Len(heap_)].expires = Deadline(now, timeoutMS)
    /\ heap_[1].expires < heap_[Len(heap_)].expires

\* C34: when the listener is edge-triggered DealListen_ accepts every waiting
\* connection, until accept reports none left; when it is level-triggered it
\* accepts exactly one connection per event.
C34_AcceptAllOrOne ==
    [][ListenDeal =>
        IF ListenET(lTrig) THEN backlog' = 0 ELSE backlog' = backlog - 1]_vars

\* the bytes of the response that writev has not taken yet
Unsent == resp_.H + resp_.F - Len(sent)

\* C35: OnWrite_ never closes a connection that still has unsent response bytes
\* unless writev failed with an error other than EAGAIN; a level-triggered partial
\* write that leaves at most 10240 bytes leads to a re-arm for EPOLLOUT, not to a
\* close.
C35_NoCloseWithUnsent ==
    [][cst = "write" /\ cst' # "write" /\ Unsent > 0 =>
        /\ cst' = "closing" => wret = "fatal"
        /\ ~isET /\ wret = "pos" /\ Unsent <= WriteLoopBytes => cst' = "out"]_vars

\* C37: once a response has been written completely, the connection is kept
\* open exactly when the response carried `Connection: keep-alive`; a response
\* with `Connection: close` is always followed by a close.
C37_KeptOpenIffKeepAlive ==
    [][cst = "write" /\ cst' # "write" /\ Unsent = 0 =>
        IF resp_.ka THEN cst' = "read" ELSE cst' = "closing"]_vars

\* C36: every access to heap_ in siftup_, siftdown_, del_, add and adjust uses an
\* index in [0, heap_.size()); siftup_ on index 0 never reads heap_[(i - 1) / 2].
\* Stated for the siftup_ of add, whatever the timer holds and whichever id and
\* timeout add is given.
C36_IndexesInRange ==
    fault = "ok" =>
        \A id \in Ids, timeOut \in 1..MaxTimeoutMs :
            addReads(Timer, id, timeOut, now) \subseteq 0..(addSize(Timer, id) - 1)

\* C38: after every Log::write, whatever the length of the formatted message,
\* the cursors of the log buffer satisfy read <= write <= capacity, and no count
\* passed to HasWritten is larger than the writable bytes at that moment.
C38_CursorsInRange ==
    /\ readPos_ <= writePos_
    /\ writePos_ <= bufSize
    /\ ~overrun

\* the ids of the lines that wait: in the queue or in the writer thread's hand
Waiting == LineIds(deq_) \cup (IF wr = "have" THEN {wrLine.id} ELSE {})

\* C39: log lines reach the file in the order in which their Log::write calls
\* took the logger's mutex, synchronous or asynchronous, also when the queue is
\* full at a write: no later line is in a file before an earlier line that still
\* waits in the queue.
C39_FileOrder ==
    /\ \A f \in FileIds : \A i, j \in DOMAIN files[f] :
        i < j => files[f][i].id < files[f][j].id
    /\ \A f \in FileIds : \A i \in DOMAIN files[f] : \A id \in Waiting :
        files[f][i].id < id

\* C40: while the logger is asynchronous the lines waiting in its queue are never
\* more than the queue capacity that init was given (the positive values init
\* is called with are those of LogInitModes).
C40_QueueWithinCapacity ==
    isAsync_ => \A q \in LogInitModes \ {0} : Len(deq_) <= q

====
